---- MODULE Spec2Model ----
(***************************************************************************)
(* A model of the search toolkit: the DeepSearchAgent of                   *)
(* deep_search_agent.py (bootstrap of the derived datasets, CSV loading,   *)
(* exact / fuzzy / date-range search, export) and the two generators it    *)
(* invokes (gkeep_adapter.py, daily_schedule_processor.py), the /search   *)
(* route of web_search_interface.py and the QuickBooksAnalyzer of          *)
(* query_quickbooks.py.                                                    *)
(*                                                                         *)
(* Text is a sequence of one-character strings; the texts the generators  *)
(* read and write are sequences of longer pieces (words, numbers, phone    *)
(* numbers).  A cell of a table is a record [t, s, n]: a missing value     *)
(* (NaN), a string, an integer or a whole float.                           *)
(***************************************************************************)
EXTENDS Integers, Sequences, FiniteSets, TLC

VARIABLES
    fs,            \* the working directory: path -> content, or Absent
    pc,            \* position of the process: "new", "ensure_gkeep", ..., "ready", "exited"
    csv_files,     \* DeepSearchAgent.csv_files
    dataframes,    \* DeepSearchAgent.dataframes, an ordered mapping file -> table
    invoked,       \* generator entry functions called by the running construction
    pending,       \* the files load_csv_files has still to visit
    results,       \* the value returned by the last operation
    call           \* the last operation and its arguments

vars == <<fs, pc, csv_files, dataframes, invoked, pending, results, call>>

----------------------------------------------------------------------------
(* Bounds of the model. *)

MaxLen == 2        \* longest generated text of a cell or of a query
MaxRows == 2       \* most rows of a generated table with dates

----------------------------------------------------------------------------
(* Text. *)

Range(f) == {f[i] : i \in DOMAIN f}

RECURSIVE SeqsUpTo(_, _)
SeqsUpTo(S, n) ==
    IF n = 0 THEN {<<>>}
    ELSE LET shorter == SeqsUpTo(S, n - 1)
         IN  shorter \cup {Append(s, c) : s \in {x \in shorter : Len(x) = n - 1}, c \in S}

Min(a, b) == IF a < b THEN a ELSE b
Max(a, b) == IF a < b THEN b ELSE a

UpperLetters ==
    <<"A", "B", "C", "D", "E", "F", "G", "H", "I", "J", "K", "L", "M",
      "N", "O", "P", "Q", "R", "S", "T", "U", "V", "W", "X", "Y", "Z">>

LowerLetters ==
    <<"a", "b", "c", "d", "e", "f", "g", "h", "i", "j", "k", "l", "m",
      "n", "o", "p", "q", "r", "s", "t", "u", "v", "w", "x", "y", "z">>

\* str.lower() on one character
LowerChar(c) ==
    IF \E i \in 1..26 : UpperLetters[i] = c
    THEN LowerLetters[CHOOSE i \in 1..26 : UpperLetters[i] = c]
    ELSE c

\* str.lower()
Lower(s) == [i \in 1..Len(s) |-> LowerChar(s[i])]

\* the Python test  sub in s  on strings
Contains(sub, s) ==
    \E i \in 0..(Len(s) - Len(sub)) : SubSeq(s, i + 1, i + Len(sub)) = sub

IsSpace(c) == c \in {" ", "\n"}

\* str.strip()
RECURSIVE LStrip(_)
LStrip(s) == IF s # <<>> /\ IsSpace(Head(s)) THEN LStrip(Tail(s)) ELSE s

RECURSIVE RStrip(_)
RStrip(s) ==
    IF s # <<>> /\ IsSpace(s[Len(s)]) THEN RStrip(SubSeq(s, 1, Len(s) - 1)) ELSE s

Strip(s) == LStrip(RStrip(s))

DigitChar(d) == <<"0", "1", "2", "3", "4", "5", "6", "7", "8", "9">>[d + 1]

\* str(n) of an integer
RECURSIVE NatToStr(_)
NatToStr(n) ==
    IF n < 10 THEN <<DigitChar(n)>> ELSE Append(NatToStr(n \div 10), DigitChar(n % 10))

IntToStr(n) == IF n < 0 THEN <<"-">> \o NatToStr(-n) ELSE NatToStr(n)

----------------------------------------------------------------------------
(* Cells and tables (pandas values and DataFrames). *)

NaN == [t |-> "nan", s |-> <<>>, n |-> 0]
Str(s) == [t |-> "str", s |-> s, n |-> 0]
Num(n) == [t |-> "num", s |-> <<>>, n |-> n]
Float(n) == [t |-> "float", s |-> <<>>, n |-> n]     \* the float n.0

\* pd.isna(v)
isna(v) == v.t = "nan"

\* isinstance(v, str)
IsStr(v) == v.t = "str"

\* str(v)
str(v) ==
    CASE v.t = "str" -> v.s
      [] v.t = "num" -> IntToStr(v.n)
      [] v.t = "float" -> IntToStr(v.n) \o <<".", "0">>
      [] OTHER -> <<"n", "a", "n">>

\* position of a column in the header of a table
ColIndex(df, col) == CHOOSE i \in 1..Len(df.cols) : df.cols[i] = col

\* row[col]
Cell(df, i, col) == df.rows[i][ColIndex(df, col)]

\* the text of a path, for the 'file' field of a record and for endswith
FileChars(f) ==
    CASE f = "a.csv" -> <<"a", ".", "c", "s", "v">>
      [] f = "b.csv" -> <<"b", ".", "c", "s", "v">>
      [] f = "out.csv" -> <<"o", "u", "t", ".", "c", "s", "v">>
      [] f = "out.json" -> <<"o", "u", "t", ".", "j", "s", "o", "n">>
      [] f = "GKeep (Simple).csv" ->
            <<"G", "K", "e", "e", "p", " ", "(", "S", "i", "m", "p", "l", "e", ")",
              ".", "c", "s", "v">>
      [] f = "GKeep_Structured.csv" ->
            <<"G", "K", "e", "e", "p", "_", "S", "t", "r", "u", "c", "t", "u", "r",
              "e", "d", ".", "c", "s", "v">>
      [] f = "consolidated_schedules.csv" ->
            <<"c", "o", "n", "s", "o", "l", "i", "d", "a", "t", "e", "d", "_",
              "s", "c", "h", "e", "d", "u", "l", "e", "s", ".", "c", "s", "v">>
      [] f = "gkeep_adapter.py" ->
            <<"g", "k", "e", "e", "p", "_", "a", "d", "a", "p", "t", "e", "r",
              ".", "p", "y">>
      [] f = "daily_schedule_processor.py" ->
            <<"d", "a", "i", "l", "y", "_", "s", "c", "h", "e", "d", "u", "l", "e",
              "_", "p", "r", "o", "c", "e", "s", "s", "o", "r", ".", "p", "y">>
      [] f = "exported_sheets_actual" ->
            <<"e", "x", "p", "o", "r", "t", "e", "d", "_", "s", "h", "e", "e", "t",
              "s", "_", "a", "c", "t", "u", "a", "l">>
      [] f = "01_15_24.csv" ->
            <<"0", "1", "_", "1", "5", "_", "2", "4", ".", "c", "s", "v">>
      [] f = "12_31_23.csv" ->
            <<"1", "2", "_", "3", "1", "_", "2", "3", ".", "c", "s", "v">>
      [] f = "notes.csv" -> <<"n", "o", "t", "e", "s", ".", "c", "s", "v">>
      [] f = "2023 QB.csv" -> <<"2", "0", "2", "3", " ", "Q", "B", ".", "c", "s", "v">>
      [] f = "oldQB.csv" -> <<"o", "l", "d", "Q", "B", ".", "c", "s", "v">>
      [] f = "consolidated_quickbooks.csv" ->
            <<"c", "o", "n", "s", "o", "l", "i", "d", "a", "t", "e", "d", "_",
              "q", "u", "i", "c", "k", "b", "o", "o", "k", "s", ".", "c", "s", "v">>
      [] f = "search_results_a.csv" ->
            <<"s", "e", "a", "r", "c", "h", "_", "r", "e", "s", "u", "l", "t", "s",
              "_", "a", ".", "c", "s", "v">>
      [] f = "search_results_a_b.csv" ->
            <<"s", "e", "a", "r", "c", "h", "_", "r", "e", "s", "u", "l", "t", "s",
              "_", "a", "_", "b", ".", "c", "s", "v">>
      [] OTHER -> <<"?">>

\* the files of an ordered mapping, in iteration order
Keys(d) == [i \in 1..Len(d) |-> d[i].file]

RECURSIVE Flatten(_)
Flatten(ss) == IF ss = <<>> THEN <<>> ELSE Head(ss) \o Flatten(Tail(ss))

----------------------------------------------------------------------------
(* DeepSearchAgent.exact_search *)

NoColumns == <<>>     \* columns=None; the code treats an empty list the same way

\* search_columns = columns if columns else df.columns, kept if in df.columns
SearchColumns(columns, df) ==
    LET wanted == IF columns = NoColumns THEN df.cols ELSE columns
    IN  SelectSeq(wanted, LAMBDA c : c \in Range(df.cols))

ForComparisonAsIs(text, case_sensitive) == text

\* query_for_comparison, cell_for_comparison
ForComparison(text, case_sensitive) == IF case_sensitive THEN text ELSE Lower(text)

CellEquals(query_for_comparison, cell_for_comparison) ==
    query_for_comparison = cell_for_comparison

\* query_for_comparison in cell_for_comparison
CellMatches(query_for_comparison, cell_for_comparison) ==
    Contains(query_for_comparison, cell_for_comparison)

\* the loop over search_columns of one row: the first matching column wins
RECURSIVE ExactRowScan(_, _, _, _, _)
ExactRowScan(df, i, cols, query_for_comparison, case_sensitive) ==
    IF cols = <<>> THEN [match_found |-> FALSE, matching_value |-> <<>>]
    ELSE LET v == Cell(df, i, Head(cols))
         IN  IF isna(v)
             THEN ExactRowScan(df, i, Tail(cols), query_for_comparison, case_sensitive)
             ELSE IF CellMatches(query_for_comparison,
                                 ForComparison(str(v), case_sensitive))
                  THEN [match_found |-> TRUE, matching_value |-> str(v)]
                  ELSE ExactRowScan(df, i, Tail(cols), query_for_comparison,
                                    case_sensitive)

ExactRecordFolded(file, df, i, matching_value) ==
    [k \in Range(df.cols) \cup {"file", "matching_value"} |->
        IF k = "matching_value" THEN Str(Lower(matching_value))
        ELSE IF k = "file" THEN Str(FileChars(file))
        ELSE Cell(df, i, k)]

\* record = {col: row[col] ...}; record['file']; record['matching_value']
ExactRecord(file, df, i, matching_value) ==
    [k \in Range(df.cols) \cup {"file", "matching_value"} |->
        IF k = "matching_value" THEN Str(matching_value)
        ELSE IF k = "file" THEN Str(FileChars(file))
        ELSE Cell(df, i, k)]

ExactFilePerColumn(file, df, query, case_sensitive, columns) ==
    LET sc == SearchColumns(columns, df)
        one(i, k) ==
            IF /\ ~isna(Cell(df, i, sc[k]))
               /\ CellMatches(ForComparison(query, case_sensitive),
                              ForComparison(str(Cell(df, i, sc[k])), case_sensitive))
            THEN <<ExactRecord(file, df, i, str(Cell(df, i, sc[k])))>>
            ELSE <<>>
    IN  Flatten([i \in 1..Len(df.rows) |-> Flatten([k \in 1..Len(sc) |-> one(i, k)])])

\* the rows of one dataset that exact_search returns, in row order
ExactFile(file, df, query, case_sensitive, columns) ==
    LET sc == SearchColumns(columns, df)
        q  == ForComparison(query, case_sensitive)
        hit(i) == ExactRowScan(df, i, sc, q, case_sensitive)
        one(i) == IF hit(i).match_found
                  THEN <<ExactRecord(file, df, i, hit(i).matching_value)>>
                  ELSE <<>>
    IN  IF sc = <<>> THEN <<>>
        ELSE Flatten([i \in 1..Len(df.rows) |-> one(i)])

exact_search(frames, query, case_sensitive, columns) ==
    Flatten([d \in 1..Len(frames) |->
                ExactFile(frames[d].file, frames[d].df, query, case_sensitive, columns)])

----------------------------------------------------------------------------
(* fuzz.ratio, as fuzzywuzzy computes it with difflib.SequenceMatcher *)

\* SequenceMatcher.find_longest_match: the longest common block, the one
\* starting earliest in a and then earliest in b; <<0, 0, 0>> if none
LongestMatch(a, b) ==
    LET blocks == {x \in (1..Len(a)) \X (1..Len(b)) \X (1..Min(Len(a), Len(b))) :
                      /\ x[1] + x[3] - 1 <= Len(a)
                      /\ x[2] + x[3] - 1 <= Len(b)
                      /\ SubSeq(a, x[1], x[1] + x[3] - 1) = SubSeq(b, x[2], x[2] + x[3] - 1)}
        better(x, y) == \/ x[3] > y[3]
                        \/ x[3] = y[3] /\ x[1] < y[1]
                        \/ x[3] = y[3] /\ x[1] = y[1] /\ x[2] <= y[2]
    IN  IF blocks = {} THEN <<0, 0, 0>>
        ELSE CHOOSE x \in blocks : \A y \in blocks : better(x, y)

\* the sum of the sizes of SequenceMatcher.get_matching_blocks()
RECURSIVE MatchCount(_, _)
MatchCount(a, b) ==
    LET m == LongestMatch(a, b)
    IN  IF m[3] = 0 THEN 0
        ELSE m[3]
             + MatchCount(SubSeq(a, 1, m[1] - 1), SubSeq(b, 1, m[2] - 1))
             + MatchCount(SubSeq(a, m[1] + m[3], Len(a)), SubSeq(b, m[2] + m[3], Len(b)))

\* int(round(x)) of the fraction num / den: Python rounds halves to even
RoundDiv(num, den) ==
    LET q == num \div den
        r == num % den
    IN  IF 2 * r < den THEN q
        ELSE IF 2 * r > den THEN q + 1
        ELSE IF q % 2 = 0 THEN q ELSE q + 1

\* fuzz.ratio(s1, s2): 100 for equal strings, 0 if one is empty,
\* else 100 * 2 * matches / (len(s1) + len(s2)), rounded
ratio(s1, s2) ==
    IF s1 = s2 THEN 100
    ELSE IF Len(s1) = 0 \/ Len(s2) = 0 THEN 0
    ELSE RoundDiv(200 * MatchCount(s1, s2), Len(s1) + Len(s2))

----------------------------------------------------------------------------
(* DeepSearchAgent.fuzzy_search *)

FuzzyScoreCased(query, v) == ratio(query, str(v))

\* fuzz.ratio(query.lower(), str(row[col]).lower())
FuzzyScore(query, v) == ratio(Lower(query), Lower(str(v)))

ScoreNotBelow(score, threshold) == score >= threshold

\* score > threshold
ScorePasses(score, threshold) == score > threshold

\* the loop over search_columns of one row: the highest score above the
\* threshold wins, the first column reaching it is kept
RECURSIVE FuzzyRowScan(_, _, _, _, _, _)
FuzzyRowScan(df, i, cols, query, threshold, best) ==
    IF cols = <<>> THEN best
    ELSE LET v == Cell(df, i, Head(cols))
             score == FuzzyScore(query, v)
         IN  IF isna(v) \/ ~IsStr(v)
             THEN FuzzyRowScan(df, i, Tail(cols), query, threshold, best)
             ELSE IF ScorePasses(score, threshold) /\ score > best.highest_score
                  THEN FuzzyRowScan(df, i, Tail(cols), query, threshold,
                                    [match_found |-> TRUE, highest_score |-> score,
                                     matching_value |-> v.s])
                  ELSE FuzzyRowScan(df, i, Tail(cols), query, threshold, best)

FuzzyRecord(file, df, i, best) ==
    [k \in Range(df.cols) \cup {"file", "match_score", "matching_value"} |->
        IF k = "matching_value" THEN Str(best.matching_value)
        ELSE IF k = "match_score" THEN Num(best.highest_score)
        ELSE IF k = "file" THEN Str(FileChars(file))
        ELSE Cell(df, i, k)]

FuzzyFile(file, df, query, threshold, columns) ==
    LET sc == SearchColumns(columns, df)
        hit(i) == FuzzyRowScan(df, i, sc, query, threshold,
                               [match_found |-> FALSE, highest_score |-> 0,
                                matching_value |-> <<>>])
        one(i) == IF hit(i).match_found THEN <<FuzzyRecord(file, df, i, hit(i))>>
                  ELSE <<>>
    IN  IF sc = <<>> THEN <<>>
        ELSE Flatten([i \in 1..Len(df.rows) |-> one(i)])

fuzzy_search(frames, query, threshold, columns) ==
    Flatten([d \in 1..Len(frames) |->
                FuzzyFile(frames[d].file, frames[d].df, query, threshold, columns)])

----------------------------------------------------------------------------
(* Dates: datetime values, datetime.strptime and DeepSearchAgent._parse_date *)

IsDigit(c) == c \in {"0", "1", "2", "3", "4", "5", "6", "7", "8", "9"}

DigitVal(c) == CHOOSE d \in 0..9 : DigitChar(d) = c

AllDigits(s) == s # <<>> /\ \A i \in 1..Len(s) : IsDigit(s[i])

\* int(s) of a text of digits
RECURSIVE ParseNat(_)
ParseNat(s) ==
    IF s = <<>> THEN 0 ELSE 10 * ParseNat(SubSeq(s, 1, Len(s) - 1)) + DigitVal(s[Len(s)])

DateTime(y, mo, d, h, mi) == [y |-> y, mo |-> mo, d |-> d, h |-> h, mi |-> mi]

ValidDate(y, mo, d) == y >= 1 /\ mo \in 1..12 /\ d \in 1..31

\* a parser's answer: a datetime, or the exception it raises
Parsed(dt) == [ok |-> TRUE, dt |-> dt]
ParseFailure == [ok |-> FALSE, dt |-> DateTime(0, 0, 0, 0, 0)]

\* datetime.min, datetime.max
datetime_min == DateTime(1, 1, 1, 0, 0)
datetime_max == DateTime(9999, 12, 31, 23, 59)

\* minutes since the start of the year, and the order of datetime values
MinuteOfYear(dt) == ((dt.mo * 31 + dt.d) * 24 + dt.h) * 60 + dt.mi
NotAfter(a, b) == a.y < b.y \/ (a.y = b.y /\ MinuteOfYear(a) <= MinuteOfYear(b))

\* datetime.strptime(s, '%Y-%m-%d')
StrptimeYmd(s) ==
    IF /\ Len(s) = 10 /\ s[5] = "-" /\ s[8] = "-"
       /\ AllDigits(SubSeq(s, 1, 4)) /\ AllDigits(SubSeq(s, 6, 7))
       /\ AllDigits(SubSeq(s, 9, 10))
       /\ ValidDate(ParseNat(SubSeq(s, 1, 4)), ParseNat(SubSeq(s, 6, 7)),
                    ParseNat(SubSeq(s, 9, 10)))
    THEN Parsed(DateTime(ParseNat(SubSeq(s, 1, 4)), ParseNat(SubSeq(s, 6, 7)),
                         ParseNat(SubSeq(s, 9, 10)), 0, 0))
    ELSE ParseFailure

\* datetime.strptime(s, '%m/%d/%Y') and, with the first two fields
\* exchanged, '%d/%m/%Y'
StrptimeSlashed(s, month_first) ==
    IF /\ Len(s) = 10 /\ s[3] = "/" /\ s[6] = "/"
       /\ AllDigits(SubSeq(s, 1, 2)) /\ AllDigits(SubSeq(s, 4, 5))
       /\ AllDigits(SubSeq(s, 7, 10))
    THEN LET a == ParseNat(SubSeq(s, 1, 2))
             b == ParseNat(SubSeq(s, 4, 5))
             y == ParseNat(SubSeq(s, 7, 10))
             mo == IF month_first THEN a ELSE b
             d == IF month_first THEN b ELSE a
         IN  IF ValidDate(y, mo, d) THEN Parsed(DateTime(y, mo, d, 0, 0))
             ELSE ParseFailure
    ELSE ParseFailure

\* a time of day HH:MM
ParseClock(s) ==
    IF /\ Len(s) = 5 /\ s[3] = ":" /\ AllDigits(SubSeq(s, 1, 2))
       /\ AllDigits(SubSeq(s, 4, 5))
       /\ ParseNat(SubSeq(s, 1, 2)) < 24 /\ ParseNat(SubSeq(s, 4, 5)) < 60
    THEN Parsed(DateTime(0, 0, 0, ParseNat(SubSeq(s, 1, 2)), ParseNat(SubSeq(s, 4, 5))))
    ELSE ParseFailure

\* dateutil.parser.parse on the texts of the model: a date YYYY-MM-DD,
\* MM/DD/YYYY or DD/MM/YYYY, alone or followed by a time of day HH:MM
date_parse(s) ==
    LET day == SubSeq(s, 1, Min(10, Len(s)))
        date == IF StrptimeYmd(day).ok THEN StrptimeYmd(day)
                ELSE IF StrptimeSlashed(day, TRUE).ok THEN StrptimeSlashed(day, TRUE)
                ELSE StrptimeSlashed(day, FALSE)
        clock == ParseClock(SubSeq(s, 12, Len(s)))
    IN  IF ~date.ok THEN ParseFailure
        ELSE IF Len(s) = 10 THEN date
        ELSE IF Len(s) = 16 /\ s[11] = " " /\ clock.ok
             THEN Parsed([date.dt EXCEPT !.h = clock.dt.h, !.mi = clock.dt.mi])
             ELSE ParseFailure

\* the explicit formats tried after the generic parser, in order
RECURSIVE TryFormats(_, _)
TryFormats(s, formats) ==
    IF formats = <<>> THEN ParseFailure
    ELSE LET r == CASE Head(formats) = "%m/%d/%Y" -> StrptimeSlashed(s, TRUE)
                    [] Head(formats) = "%d/%m/%Y" -> StrptimeSlashed(s, FALSE)
                    [] Head(formats) = "%Y-%m-%d" -> StrptimeYmd(s)
                    [] OTHER -> ParseFailure
         IN  IF r.ok THEN r ELSE TryFormats(s, Tail(formats))

\* DeepSearchAgent._parse_date
parse_date(value) ==
    IF date_parse(value).ok THEN date_parse(value)
    ELSE TryFormats(value, <<"%m/%d/%Y", "%d/%m/%Y", "%Y-%m-%d">>)

\* DeepSearchAgent._is_date
is_date(value) == parse_date(value).ok

Pad(s, width) == [i \in 1..(width - Len(s)) |-> "0"] \o s

\* date.strftime('%Y-%m-%d')
FormatYmd(dt) ==
    Pad(NatToStr(dt.y), 4) \o <<"-">> \o Pad(NatToStr(dt.mo), 2) \o <<"-">>
        \o Pad(NatToStr(dt.d), 2)

----------------------------------------------------------------------------
(* DeepSearchAgent.date_range_search *)

\* df[column].dropna().head(5)
RECURSIVE FirstNonNull(_, _, _, _)
FirstNonNull(df, column, i, n) ==
    IF i > Len(df.rows) \/ n = 0 THEN <<>>
    ELSE IF isna(Cell(df, i, column)) THEN FirstNonNull(df, column, i + 1, n)
    ELSE <<Cell(df, i, column)>> \o FirstNonNull(df, column, i + 1, n - 1)

PotentialDateColsUnsampled(df, date_columns) ==
    IF date_columns = NoColumns
    THEN SelectSeq(df.cols,
             LAMBDA column : \E i \in 1..Len(df.rows) :
                                 IsStr(Cell(df, i, column)) /\ is_date(Cell(df, i, column).s))
    ELSE SelectSeq(date_columns, LAMBDA col : col \in Range(df.cols))

\* potential_date_cols
PotentialDateCols(df, date_columns) ==
    IF date_columns = NoColumns
    THEN SelectSeq(df.cols,
             LAMBDA column : \E v \in Range(FirstNonNull(df, column, 1, 5)) :
                                 IsStr(v) /\ is_date(v.s))
    ELSE SelectSeq(date_columns, LAMBDA col : col \in Range(df.cols))

\* start_dt <= date_value <= end_dt
InRange(start_dt, date_value, end_dt) ==
    NotAfter(start_dt, date_value) /\ NotAfter(date_value, end_dt)

\* the loop over the candidate columns of one row: date_found
DateFound(df, i, cols, start_dt, end_dt) ==
    \E k \in 1..Len(cols) :
        LET cell_value == str(Cell(df, i, cols[k]))
        IN  /\ Lower(cell_value) # <<"n", "a", "n">>
            /\ cell_value # <<>>
            /\ parse_date(cell_value).ok
            /\ InRange(start_dt, parse_date(cell_value).dt, end_dt)

\* row_matches
DateRecord(df, i) ==
    [k \in Range(df.cols) \cup {"_row_index"} |->
        IF k = "_row_index" THEN Num(i - 1) ELSE Str(str(Cell(df, i, k)))]

\* the scan of a dataset if a cell that no parser accepts ended it
DateFileAborted(df, date_columns, start_dt, end_dt) ==
    LET cols == PotentialDateCols(df, date_columns)
        fails(i) == \E k \in 1..Len(cols) :
                        /\ ~isna(Cell(df, i, cols[k]))
                        /\ ~parse_date(str(Cell(df, i, cols[k]))).ok
    IN  IF cols = <<>> THEN <<>>
        ELSE Flatten([i \in 1..Len(df.rows) |->
                        IF /\ \A j \in 1..i : ~fails(j)
                           /\ DateFound(df, i, cols, start_dt, end_dt)
                        THEN <<DateRecord(df, i)>> ELSE <<>>])

\* file_matches
DateFile(df, date_columns, start_dt, end_dt) ==
    LET cols == PotentialDateCols(df, date_columns)
    IN  IF cols = <<>> THEN <<>>
        ELSE Flatten([i \in 1..Len(df.rows) |->
                        IF DateFound(df, i, cols, start_dt, end_dt)
                        THEN <<DateRecord(df, i)>> ELSE <<>>])

\* a bound: none gives the default, a malformed one makes the search return {}
Bound(text, default) == IF text = <<>> THEN Parsed(default) ELSE StrptimeYmd(text)

\* the dict the search returns, as the list of its items
date_range_search(frames, start_date, end_date, date_columns) ==
    LET start == Bound(start_date, datetime_min)
        end == Bound(end_date, datetime_max)
        item(d) == LET m == DateFile(frames[d].df, date_columns, start.dt, end.dt)
                   IN  IF m = <<>> THEN <<>>
                       ELSE <<[file |-> frames[d].file, matches |-> m]>>
    IN  IF ~start.ok \/ ~end.ok THEN <<>>
        ELSE Flatten([d \in 1..Len(frames) |-> item(d)])

----------------------------------------------------------------------------
(* The operations of a constructed agent, as actions.  They leave the      *)
(* position of the process to the caller (Once, Served).                   *)

NoCall ==
    [op |-> "none", query |-> <<>>, case_sensitive |-> FALSE, threshold |-> 0,
     columns |-> NoColumns, start_date |-> <<>>, end_date |-> <<>>,
     date_columns |-> NoColumns, records |-> <<>>, file |-> "", filters |-> <<>>,
     fuzzy |-> FALSE, max_columns |-> 0, show_scores |-> FALSE, raised |-> FALSE,
     html_output |-> FALSE]

ExactSearch(query, case_sensitive, columns) ==
    /\ pc = "ready"
    /\ results' = exact_search(dataframes, query, case_sensitive, columns)
    /\ call' = [NoCall EXCEPT !.op = "exact_search", !.query = query,
                              !.case_sensitive = case_sensitive, !.columns = columns]
    /\ UNCHANGED <<fs, csv_files, dataframes, invoked, pending>>

FuzzySearch(query, threshold, columns) ==
    /\ pc = "ready"
    /\ results' = fuzzy_search(dataframes, query, threshold, columns)
    /\ call' = [NoCall EXCEPT !.op = "fuzzy_search", !.query = query,
                              !.threshold = threshold, !.columns = columns]
    /\ UNCHANGED <<fs, csv_files, dataframes, invoked, pending>>

DateRangeSearch(start_date, end_date, date_columns) ==
    /\ pc = "ready"
    /\ results' = date_range_search(dataframes, start_date, end_date, date_columns)
    /\ call' = [NoCall EXCEPT !.op = "date_range_search", !.start_date = start_date,
                              !.end_date = end_date, !.date_columns = date_columns]
    /\ UNCHANGED <<fs, csv_files, dataframes, invoked, pending>>

\* the call is the only one of its process, as in main(): the process ends
Once(Op) == Op /\ pc' = "done"

\* the call is one of many on a long-lived agent, as in the web front end
Served(Op) == Op /\ pc' = pc

----------------------------------------------------------------------------
(* SpecSearch: a process whose agent holds a small loaded dataset makes    *)
(* one exact or fuzzy search.                                              *)

SearchAlphabet == {"A", "a", " "}

\* generated texts, the empty one included
Texts == SeqsUpTo(SearchAlphabet, MaxLen)

\* cells a loaded table can hold: no empty string, read_csv makes it NaN
GenCells == {Str(s) : s \in Texts \ {<<>>}} \cup {NaN, Num(7)}

SecondRow == <<Str(<<"a", "A">>), NaN>>

OtherFrame ==
    [file |-> "b.csv",
     df |-> [cols |-> <<"note", "zip">>, rows |-> <<<<Str(<<"A">>), Num(7)>>>>]]

SearchFrames ==
    LET first == {<<c1, c2>> : c1 \in GenCells, c2 \in {NaN, Str(<<"a", " ">>)}}
        one(r) == <<[file |-> "a.csv",
                     df |-> [cols |-> <<"name", "note">>, rows |-> <<r>>]]>>
        two(r) == <<[file |-> "a.csv",
                     df |-> [cols |-> <<"name", "note">>, rows |-> <<r, SecondRow>>]],
                    OtherFrame>>
    IN  {one(r) : r \in first} \cup {two(r) : r \in first}

Queries == Texts \cup {<<"7">>}

\* None, or the list a caller passes (never empty: columns or None, nargs='+')
ColumnLists == {NoColumns, <<"name">>, <<"note", "name">>, <<"zip">>}

Thresholds == {0, 50, 67, 100}

NoFs == [p \in {} |-> 0]

InitSearch ==
    /\ fs = NoFs
    /\ pc = "ready"
    /\ dataframes \in SearchFrames
    /\ csv_files = Keys(dataframes)
    /\ invoked = {}
    /\ pending = <<>>
    /\ results = <<>>
    /\ call = NoCall

NextSearch ==
    \/ \E q \in Queries, cs \in BOOLEAN, cols \in ColumnLists :
          Once(ExactSearch(q, cs, cols))
    \/ \E q \in Queries, t \in Thresholds, cols \in ColumnLists :
          Once(FuzzySearch(q, t, cols))

SpecSearch == InitSearch /\ [][NextSearch]_vars

----------------------------------------------------------------------------
(* What a result list says about the rows of the loaded datasets. *)

MetaFields == {"file", "match_score", "matching_value"}

\* a returned record without the fields the search added: its file and row
RowOf(record) ==
    <<record["file"].s, [k \in (DOMAIN record) \ MetaFields |-> record[k]]>>

RowsOf(records) == [i \in 1..Len(records) |-> RowOf(records[i])]

\* row i of a dataset, in the same form
RowAt(frame, i) ==
    <<FileChars(frame.file),
      [k \in Range(frame.df.cols) \ MetaFields |-> Cell(frame.df, i, k)]>>

\* the rows of the datasets that satisfy P, in dataset order and row order
RowsWhere(frames, P(_, _)) ==
    Flatten([d \in 1..Len(frames) |->
        Flatten([i \in 1..Len(frames[d].df.rows) |->
            IF P(frames[d].df, i) THEN <<RowAt(frames[d], i)>> ELSE <<>>])])

AllowedColumns(columns, df) ==
    IF columns = NoColumns THEN Range(df.cols) ELSE Range(columns) \cap Range(df.cols)

\* C1: case-insensitive exact_search returns a row if and only if an allowed
\* column of the row holds a non-null cell whose lower-cased text contains
\* the lower-cased query
C1_ExactIffContained ==
    (call.op = "exact_search" /\ ~call.case_sensitive) =>
        RowsOf(results) =
            RowsWhere(dataframes,
                LAMBDA df, i : \E c \in AllowedColumns(call.columns, df) :
                    /\ ~isna(Cell(df, i, c))
                    /\ Contains(Lower(call.query), Lower(str(Cell(df, i, c)))))

TotalRows(frames) == Len(RowsWhere(frames, LAMBDA df, i : TRUE))

\* a mixed-case query over chosen columns returned some rows and left some out
C1_Witness ==
    /\ call.op = "exact_search" /\ ~call.case_sensitive
    /\ call.columns # NoColumns
    /\ Lower(call.query) # call.query
    /\ results # <<>>
    /\ Len(results) < TotalRows(dataframes)

\* C2, as stated: every row exact_search returns (case-insensitively) is
\* among the rows fuzzy_search returns for the same query and columns,
\* whatever the threshold (stated here for the non-empty queries only)
C2_FuzzySupersetOfExact ==
    (call.op = "fuzzy_search" /\ call.query # <<>>) =>
        Range(RowsOf(exact_search(dataframes, call.query, FALSE, call.columns)))
            \subseteq Range(RowsOf(results))

\* the rows with an allowed string cell equal to the query up to letter case
EqualRows(frames, query, columns) ==
    RowsWhere(frames,
        LAMBDA df, i : \E c \in AllowedColumns(columns, df) :
            /\ IsStr(Cell(df, i, c))
            /\ Lower(Cell(df, i, c).s) = Lower(query))

\* C2, amended: below threshold 100, every row with an allowed string cell
\* equal to the query up to letter case is returned by fuzzy_search, as it is
\* by exact_search
C2_EqualCellsAreFuzzyMatches ==
    (call.op = "fuzzy_search" /\ call.threshold < 100) =>
        /\ Range(EqualRows(dataframes, call.query, call.columns))
               \subseteq Range(RowsOf(results))
        /\ Range(EqualRows(dataframes, call.query, call.columns))
               \subseteq Range(RowsOf(exact_search(dataframes, call.query, FALSE,
                                                  call.columns)))

\* a fuzzy search whose query differs in case from a cell it equals otherwise
C2_Witness ==
    /\ call.op = "fuzzy_search" /\ call.threshold < 100
    /\ Lower(call.query) # call.query
    /\ EqualRows(dataframes, call.query, call.columns) # <<>>
    /\ \E i \in 1..Len(results) : results[i]["matching_value"].s # call.query

\* the cell is the query, up to letter case, between leading and trailing
\* whitespace
EqualUpToCaseAndPadding(cell, query) ==
    \E i \in 1..(Len(cell) + 1), j \in 0..Len(cell) :
        /\ Lower(SubSeq(cell, i, j)) = Lower(query)
        /\ \A k \in 1..Len(cell) : (k < i \/ k > j) => IsSpace(cell[k])

\* C5: case-insensitive exact_search returns every row with an allowed
\* non-null cell that equals the query up to letter case and leading or
\* trailing whitespace in the cell
C5_CaseAndWhitespace ==
    (call.op = "exact_search" /\ ~call.case_sensitive) =>
        Range(RowsWhere(dataframes,
                LAMBDA df, i : \E c \in AllowedColumns(call.columns, df) :
                    /\ ~isna(Cell(df, i, c))
                    /\ EqualUpToCaseAndPadding(str(Cell(df, i, c)), call.query)))
            \subseteq Range(RowsOf(results))

\* a returned row matched through a cell with other letter case than the
\* query and with whitespace around it
C5_Witness ==
    /\ call.op = "exact_search" /\ ~call.case_sensitive
    /\ call.query # <<>>
    /\ \E i \in 1..Len(results) :
          LET cell == results[i]["matching_value"].s
          IN  /\ EqualUpToCaseAndPadding(cell, call.query)
              /\ Strip(cell) # cell
              /\ Strip(cell) # call.query

\* the cell of row i in column c is not null and contains the query
Holds(df, i, c, query, case_sensitive) ==
    /\ ~isna(Cell(df, i, c))
    /\ Contains(IF case_sensitive THEN query ELSE Lower(query),
                IF case_sensitive THEN str(Cell(df, i, c)) ELSE Lower(str(Cell(df, i, c))))

\* the record is row i of the dataset with the file name and the text of
\* the first searched column of the row that holds the query
FromRow(record, frame, i, query, case_sensitive, columns) ==
    LET sc == SearchColumns(columns, frame.df)
    IN  /\ RowOf(record) = RowAt(frame, i)
        /\ record["file"] = Str(FileChars(frame.file))
        /\ \E k \in 1..Len(sc) :
              /\ Holds(frame.df, i, sc[k], query, case_sensitive)
              /\ \A j \in 1..(k - 1) : ~Holds(frame.df, i, sc[j], query, case_sensitive)
              /\ record["matching_value"] = Str(str(Cell(frame.df, i, sc[k])))

C12_OneRecordPerRowInOrder ==
    call.op = "exact_search" =>
        RowsOf(results) =
            RowsWhere(dataframes,
                LAMBDA df, i : \E c \in AllowedColumns(call.columns, df) :
                    Holds(df, i, c, call.query, call.case_sensitive))

\* a row with two searched cells that contain the query gave one record,
\* followed by a record of a later row and one of the next dataset
C12_Witness ==
    /\ call.op = "exact_search" /\ call.columns = NoColumns /\ call.query # <<>>
    /\ Len(results) = 3
    /\ Holds(dataframes[1].df, 1, "name", call.query, call.case_sensitive)
    /\ Holds(dataframes[1].df, 1, "note", call.query, call.case_sensitive)
    /\ results[3]["file"] = Str(FileChars("b.csv"))

\* the similarity of the query and the string cell of row i in column c
Similarity(df, i, c, query) == ratio(Lower(query), Lower(Cell(df, i, c).s))

\* the searched columns of row i that hold a string, in search order
StringColumns(df, i, columns) ==
    SelectSeq(SearchColumns(columns, df), LAMBDA c : IsStr(Cell(df, i, c)))

\* column k of the string columns holds the highest similarity of the row
\* and no earlier one reaches it
FirstBest(df, i, sc, k, query) ==
    /\ \A j \in 1..Len(sc) : Similarity(df, i, sc[j], query) <= Similarity(df, i, sc[k], query)
    /\ \A j \in 1..(k - 1) : Similarity(df, i, sc[j], query) < Similarity(df, i, sc[k], query)

\* the record is row i of the dataset with the highest similarity of the
\* row, above the threshold, and the first cell that reaches it
BestOfRow(record, frame, i, sc, query, threshold) ==
    /\ RowOf(record) = RowAt(frame, i)
    /\ \E k \in 1..Len(sc) :
          /\ FirstBest(frame.df, i, sc, k, query)
          /\ Similarity(frame.df, i, sc[k], query) > threshold
          /\ record["match_score"] = Num(Similarity(frame.df, i, sc[k], query))
          /\ record["matching_value"] = Cell(frame.df, i, sc[k])

----------------------------------------------------------------------------
(* SpecDates: a process whose agent holds a small dataset with dates makes *)
(* one date-range search.                                                  *)

D14 == <<"2", "0", "2", "4", "-", "0", "1", "-", "1", "4">>
D15 == <<"2", "0", "2", "4", "-", "0", "1", "-", "1", "5">>
D16 == <<"2", "0", "2", "4", "-", "0", "1", "-", "1", "6">>
D15Morning == D15 \o <<" ", "1", "0", ":", "3", "0">>
Us16 == <<"0", "1", "/", "1", "6", "/", "2", "0", "2", "4">>
NotADate == <<"a", "b", "c">>
Malformed == <<"1", "5", "/", "0", "1", "/", "2", "0", "2", "4">>

DateCells == {NaN, Str(D14), Str(D15), Str(D15Morning), Str(Us16), Str(NotADate)}

DateRowKinds == {<<c1, c2>> : c1 \in DateCells, c2 \in {NaN, Str(D14)}}

DateTables ==
    {[cols |-> <<"when", "due">>, rows |-> r] :
        r \in SeqsUpTo(DateRowKinds, MaxRows) \ {<<>>}}

DateBounds == {<<>>, D14, D15, D16, Malformed}

DateColumnLists == {NoColumns, <<"when">>, <<"due", "zip">>}

InitDates ==
    /\ fs = NoFs
    /\ pc = "ready"
    /\ dataframes \in {<<[file |-> "a.csv", df |-> t]>> : t \in DateTables}
    /\ csv_files = Keys(dataframes)
    /\ invoked = {}
    /\ pending = <<>>
    /\ results = <<>>
    /\ call = NoCall

NextDates ==
    \E s \in DateBounds, e \in DateBounds, cols \in DateColumnLists :
        Once(DateRangeSearch(s, e, cols))

SpecDates == InitDates /\ [][NextDates]_vars

\* the dates found in the candidate date columns of the loaded datasets
DatesFound(frames, date_columns) ==
    LET inColumn(df, c) ==
            {parse_date(str(Cell(df, i, c))).dt :
                i \in {j \in 1..Len(df.rows) :
                          /\ ~isna(Cell(df, j, c))
                          /\ parse_date(str(Cell(df, j, c))).ok}}
        inFrame(df) ==
            UNION {inColumn(df, c) : c \in Range(PotentialDateCols(df, date_columns))}
    IN  UNION {inFrame(frames[d].df) : d \in 1..Len(frames)}

Earliest(dates) == CHOOSE x \in dates : \A y \in dates : NotAfter(x, y)
Latest(dates) == CHOOSE x \in dates : \A y \in dates : NotAfter(y, x)

\* C3: a date-range search without bounds returns the rows that the search
\* returns with start set to the earliest and end set to the latest date
\* (written YYYY-MM-DD) found in the candidate date columns
C3_NoBoundsEqualsMinMax ==
    LET found == DatesFound(dataframes, call.date_columns)
    IN  ( /\ call.op = "date_range_search"
          /\ call.start_date = <<>> /\ call.end_date = <<>>
          /\ found # {} ) =>
            results = date_range_search(dataframes, FormatYmd(Earliest(found)),
                                        FormatYmd(Latest(found)), call.date_columns)

\* the day of a moment: its date at midnight
DayOf(dt) == [dt EXCEPT !.h = 0, !.mi = 0]

\* the moment falls on the start date, on the end date or between them
OnOrBetween(start_dt, dt, end_dt) ==
    NotAfter(DayOf(start_dt), DayOf(dt)) /\ NotAfter(DayOf(dt), DayOf(end_dt))

\* row i of dataset d is among the matches of the last date-range search
RowReturned(frames, d, i) ==
    \E x \in 1..Len(results) :
        /\ results[x].file = frames[d].file
        /\ \E m \in 1..Len(results[x].matches) :
              results[x].matches[m]["_row_index"] = Num(i - 1)

\* a candidate date column of row i holds a text that parses to a moment
\* for which P holds
SomeDate(df, i, date_columns, P(_)) ==
    \E c \in Range(PotentialDateCols(df, date_columns)) :
        /\ ~isna(Cell(df, i, c))
        /\ parse_date(str(Cell(df, i, c))).ok
        /\ P(parse_date(str(Cell(df, i, c))).dt)

\* C14: with well-formed bounds, date_range_search returns every row with
\* a candidate date column that parses to a moment on the start date, on
\* the end date (at any time of day) or between them
C14_BothBoundsInclusive ==
    ( /\ call.op = "date_range_search"
      /\ Bound(call.start_date, datetime_min).ok
      /\ Bound(call.end_date, datetime_max).ok ) =>
        \A d \in 1..Len(dataframes) :
            \A i \in 1..Len(dataframes[d].df.rows) :
                SomeDate(dataframes[d].df, i, call.date_columns,
                         LAMBDA dt : OnOrBetween(Bound(call.start_date, datetime_min).dt, dt,
                                                 Bound(call.end_date, datetime_max).dt))
                    => RowReturned(dataframes, d, i)

\* C15: a cell that no parser accepts is skipped: with well-formed bounds,
\* date_range_search returns a row exactly when one of its candidate date
\* cells parses to a moment within the bounds, whatever the other cells and
\* the rows before it hold
C15_UnparseableCellsAreSkipped ==
    ( /\ call.op = "date_range_search"
      /\ Bound(call.start_date, datetime_min).ok
      /\ Bound(call.end_date, datetime_max).ok ) =>
        \A d \in 1..Len(dataframes) :
            \A i \in 1..Len(dataframes[d].df.rows) :
                RowReturned(dataframes, d, i)
                    <=> SomeDate(dataframes[d].df, i, call.date_columns,
                                 LAMBDA dt : InRange(Bound(call.start_date, datetime_min).dt, dt,
                                                     Bound(call.end_date, datetime_max).dt))

\* the only candidate date cell of the first row is no date: the row is
\* left out and the row after it is returned
C15_Witness ==
    /\ call.op = "date_range_search"
    /\ Len(dataframes[1].df.rows) = 2
    /\ Cell(dataframes[1].df, 1, "when") = Str(NotADate)
    /\ isna(Cell(dataframes[1].df, 1, "due"))
    /\ "when" \in Range(PotentialDateCols(dataframes[1].df, call.date_columns))
    /\ ~RowReturned(dataframes, 1, 1)
    /\ RowReturned(dataframes, 1, 2)

----------------------------------------------------------------------------
(* The working directory.  A path holds a content [kind, header, body]:    *)
(* a CSV file (its column names and the text under the header line), a     *)
(* file no reader can decode, a JSON file, a script, a folder, or nothing. *)
(* The text of a generated file is a sequence of pieces: characters, or    *)
(* whole words where the generators treat a word as a unit.                *)

GKeepSimple == "GKeep (Simple).csv"
GKeepStructured == "GKeep_Structured.csv"
Consolidated == "consolidated_schedules.csv"
GkeepAdapter == "gkeep_adapter.py"
ScheduleProcessor == "daily_schedule_processor.py"
SheetsFolder == "exported_sheets_actual"

Paths ==
    {"a.csv", "out.csv", "out.json", GKeepSimple, GKeepStructured, Consolidated,
     GkeepAdapter, ScheduleProcessor, SheetsFolder}

Absent == [kind |-> "absent", header |-> <<>>, body |-> <<>>]
Unreadable == [kind |-> "unreadable", header |-> <<>>, body |-> <<>>]
CsvFile(header, body) == [kind |-> "csv", header |-> header, body |-> body]
JsonFile(records) == [kind |-> "json", header |-> <<>>, body |-> records]

EmptyDir == [p \in Paths |-> Absent]

\* os.path.exists(path)
exists(dir, path) == dir[path].kind # "absent"

\* f.endswith('.csv')
EndsWithCsv(path) ==
    LET c == FileChars(path)
    IN  Len(c) >= 4 /\ SubSeq(c, Len(c) - 3, Len(c)) = <<".", "c", "s", "v">>

\* os.path.splitext(output_file)[1].lower()
Extension(path) ==
    LET c == FileChars(path)
        dots == {i \in 1..Len(c) : c[i] = "."}
    IN  IF dots = {} THEN <<>>
        ELSE Lower(SubSeq(c, CHOOSE i \in dots : \A j \in dots : j <= i, Len(c)))

----------------------------------------------------------------------------
(* Writing a table as CSV: pd.DataFrame(records).to_csv(path, index=False) *)

\* the order in which the columns of a list of records are laid out
FieldOrder ==
    <<"name", "note", "zip", "when", "due", "full_name", "address", "email", "phone",
      "notes", "source", "Schedule_Date", "Source_File", "COMPANY", "Name", "Address",
      "Phone", "Email", "Customer", "Total", "Year", "file", "match_score",
      "matching_value">>

\* pd.DataFrame(records): one column per key, NaN where a record lacks it
DataFrameOf(records) ==
    LET keys == UNION {DOMAIN records[i] : i \in 1..Len(records)}
        cols == SelectSeq(FieldOrder, LAMBDA k : k \in keys)
    IN  [cols |-> cols,
         rows |-> [i \in 1..Len(records) |->
                     [j \in 1..Len(cols) |->
                         IF cols[j] \in DOMAIN records[i] THEN records[i][cols[j]]
                         ELSE NaN]]]

ColumnValues(df, j) == {df.rows[i][j] : i \in 1..Len(df.rows)}

\* a column of numbers with a missing value is a float column
IsFloatColumn(df, j) ==
    /\ \A v \in ColumnValues(df, j) : v.t \in {"nan", "num", "float"}
    /\ \E v \in ColumnValues(df, j) : v.t \in {"nan", "float"}

\* the text written for a value; a missing value is written as nothing
FieldText(v, float_column) ==
    CASE v.t = "str" -> v.s
      [] v.t = "num" -> IF float_column THEN str(Float(v.n)) ELSE str(v)
      [] v.t = "float" -> str(v)
      [] OTHER -> <<>>

NeedsQuotes(field) == \E i \in 1..Len(field) : field[i] \in {",", "\"", "\n", "\r"}

QuoteNever(field, alone) == field

\* csv.QUOTE_MINIMAL with doublequote=True; a lone empty field is written ""
QuoteField(field, alone) ==
    IF NeedsQuotes(field) \/ (alone /\ field = <<>>)
    THEN <<"\"">>
         \o Flatten([i \in 1..Len(field) |->
                        IF field[i] = "\"" THEN <<"\"", "\"">> ELSE <<field[i]>>])
         \o <<"\"">>
    ELSE field

\* one line of the file: the fields joined by commas, and the line end
CsvLine(fields) ==
    Flatten([j \in 1..Len(fields) |->
                (IF j > 1 THEN <<",">> ELSE <<>>) \o QuoteField(fields[j], Len(fields) = 1)])
        \o <<"\n">>

to_csv(df) ==
    CsvFile(df.cols,
            Flatten([i \in 1..Len(df.rows) |->
                        CsvLine([j \in 1..Len(df.cols) |->
                                    FieldText(df.rows[i][j], IsFloatColumn(df, j))])]))

----------------------------------------------------------------------------
(* Reading a CSV file: pd.read_csv(path) *)

Positions(text) == [k \in 1..Len(text) |-> k]

QuotesBefore(text, k) == Cardinality({j \in 1..(k - 1) : text[j] = "\""})

\* a comma or a line end counts when it is not inside quotes
IsSeparator(text, k, seps) == text[k] \in seps /\ QuotesBefore(text, k) % 2 = 0

\* the stretches [from, to] that the separators at the positions `at` leave
Stretches(at, lo, hi) ==
    [n \in 1..(Len(at) + 1) |->
        [from |-> IF n = 1 THEN lo ELSE at[n - 1] + 1,
         to |-> IF n = Len(at) + 1 THEN hi ELSE at[n] - 1]]

Split(text, lo, hi, seps) ==
    Stretches(SelectSeq(Positions(text),
                        LAMBDA k : lo <= k /\ k <= hi /\ IsSeparator(text, k, seps)),
              lo, hi)

\* the characters at the positions kept
Picked(text, kept) == [n \in 1..Len(kept) |-> text[kept[n]]]

\* the text of a field: the enclosing quotes go, a doubled quote is one quote
Unquoted(text, lo, hi) ==
    Picked(text,
           SelectSeq(Positions(text),
                     LAMBDA k : /\ lo <= k /\ k <= hi
                                /\ \/ text[k] # "\""
                                   \/ /\ k > lo
                                      /\ text[k - 1] = "\""
                                      /\ QuotesBefore(text, k) % 2 = 0))

FieldsOf(text, stretches) ==
    [j \in 1..Len(stretches) |-> Unquoted(text, stretches[j].from, stretches[j].to)]

LinesOf(text, stretches) ==
    [i \in 1..Len(stretches) |->
        FieldsOf(text, Split(text, stretches[i].from, stretches[i].to, {","}))]

\* the tokenizer: the rows of fields of a text; blank lines are skipped
Tokenize(text) ==
    LinesOf(text, SelectSeq(Split(text, 1, Len(text), {"\n", "\r"}),
                            LAMBDA l : l.from <= l.to))

\* the texts read as a missing value (the default na_values)
NaTokens ==
    {<<>>, <<"N", "A">>, <<"N", "/", "A">>, <<"n", "/", "a">>, <<"n", "a", "n">>,
     <<"N", "a", "N">>, <<"N", "U", "L", "L">>, <<"n", "u", "l", "l">>,
     <<"N", "o", "n", "e">>, <<"#", "N", "/", "A">>, <<"#", "N", "A">>,
     <<"<", "N", "A", ">">>, <<"-", "N", "a", "N">>, <<"-", "n", "a", "n">>}

\* the default na_values of the reader
NaTexts == NaTokens

IsIntText(t) ==
    \/ AllDigits(t)
    \/ Len(t) > 1 /\ t[1] \in {"-", "+"} /\ AllDigits(Tail(t))

IntOfText(t) ==
    IF t[1] = "-" THEN 0 - ParseNat(Tail(t))
    ELSE IF t[1] = "+" THEN ParseNat(Tail(t))
    ELSE ParseNat(t)

\* a whole number written as a float: digits, a point, zeros
IsWholeFloatText(t) ==
    \E k \in 2..(Len(t) - 1) :
        /\ t[k] = "."
        /\ IsIntText(SubSeq(t, 1, k - 1))
        /\ \A j \in (k + 1)..Len(t) : t[j] = "0"

WholeOfFloatText(t) ==
    IntOfText(SubSeq(t, 1, (CHOOSE k \in 2..(Len(t) - 1) : t[k] = ".") - 1))

IsNumberText(t) == IsIntText(t) \/ IsWholeFloatText(t)

\* type inference: a column all of whose present texts are numbers is numeric
IsNumericColumn(texts) ==
    \A t \in texts : t \in NaTexts \/ IsNumberText(t)

\* the value of one field of a column with the given texts
CellOfText(t, texts) ==
    IF t \in NaTexts THEN NaN
    ELSE IF ~IsNumericColumn(texts) THEN Str(t)
    ELSE IF \A u \in texts : IsIntText(u) THEN Num(IntOfText(t))
    ELSE IF IsIntText(t) THEN Float(IntOfText(t))
    ELSE Float(WholeOfFloatText(t))

ReadFailure == [ok |-> FALSE, df |-> [cols |-> <<>>, rows |-> <<>>]]

\* pd.read_csv(path, on_bad_lines=...): the table, or the exception (file
\* missing or not decodable, no columns, a line with more fields than the
\* header unless such lines are skipped)
ReadCsv(content, on_bad_lines) ==
    LET n == Len(content.header)
        all == Tokenize(content.body)
        lines == IF on_bad_lines = "skip"
                 THEN SelectSeq(all, LAMBDA l : Len(l) <= n)
                 ELSE all
        text(i, j) == IF j <= Len(lines[i]) THEN lines[i][j] ELSE <<>>
        texts(j) == {text(i, j) : i \in 1..Len(lines)}
    IN  IF content.kind # "csv" \/ n = 0 THEN ReadFailure
        ELSE IF \E i \in 1..Len(lines) : Len(lines[i]) > n THEN ReadFailure
        ELSE [ok |-> TRUE,
              df |-> [cols |-> content.header,
                      rows |-> [i \in 1..Len(lines) |->
                                  [j \in 1..n |-> CellOfText(text(i, j), texts(j))]]]]

\* pd.read_csv(path)
read_csv(content) == ReadCsv(content, "error")

----------------------------------------------------------------------------
(* DeepSearchAgent.export_results *)

\* the directory after export_results(records, output_file)
export_results(dir, records, output_file) ==
    IF records = <<>> THEN dir
    ELSE IF Extension(output_file) = <<".", "j", "s", "o", "n">>
    THEN [dir EXCEPT ![output_file] = JsonFile(records)]
    ELSE [dir EXCEPT ![output_file] = to_csv(DataFrameOf(records))]

----------------------------------------------------------------------------
(* daily_schedule_processor.py.  The folder of daily exports is a content  *)
(* of kind "dir" whose body lists its entries [name, mtime, content].  The *)
(* text of a schedule cell is a sequence of pieces: words, ":" and spaces. *)

Folder(entries) == [kind |-> "dir", header |-> <<>>, body |-> entries]

\* the match of \d{2}_\d{2}_\d{2} at position i
IsDatePatternAt(c, i) ==
    /\ i + 7 <= Len(c)
    /\ \A k \in {0, 1, 3, 4, 6, 7} : IsDigit(c[i + k])
    /\ c[i + 2] = "_" /\ c[i + 5] = "_"

\* the first MM_DD_YY of the base name as 20YY-MM-DD, else the day the file
\* was last modified
extract_date_from_filename(name, mtime) ==
    LET c == FileChars(name)
        at == {i \in 1..Len(c) : IsDatePatternAt(c, i)}
        i == CHOOSE k \in at : \A m \in at : k <= m
    IN  IF at = {} THEN mtime
        ELSE <<"2", "0">> \o SubSeq(c, i + 6, i + 7) \o <<"-">> \o SubSeq(c, i, i + 1)
             \o <<"-">> \o SubSeq(c, i + 3, i + 4)

EmptyJob == [k \in {} |-> <<>>]

\* current_job[key] = value
SetField(job, key, value) ==
    [k \in DOMAIN job \cup {key} |-> IF k = key THEN value ELSE job[k]]

\* "COMPANY:" in cell
HasCompany(t) == \E i \in 1..(Len(t) - 1) : t[i] = "COMPANY" /\ t[i + 1] = ":"

\* ':' in cell
HasColon(t) == \E i \in 1..Len(t) : t[i] = ":"

FirstColon(t) == CHOOSE i \in 1..Len(t) : t[i] = ":" /\ \A j \in 1..(i - 1) : t[j] # ":"

\* cell.split(':', 1), each part stripped; a key is one word in this model
KeyPart(t) == Strip(SubSeq(t, 1, FirstColon(t) - 1))
ValuePart(t) == Strip(SubSeq(t, FirstColon(t) + 1, Len(t)))

\* the pieces the three regular expressions of the cell loop match
AddressPieces == {"12 Main St"}
PhonePieces == {"905-555-0100"}
EmailPieces == {"bob@mail.com"}

\* re.findall(pattern, cell)[0], or the empty text when nothing matches
FirstPiece(t, pieces) ==
    LET at == {i \in 1..Len(t) : t[i] \in pieces}
    IN  IF at = {} THEN <<>> ELSE <<t[CHOOSE i \in at : \A j \in at : i <= j]>>

EmittableWhenNotEmpty(job) == DOMAIN job # {}

\* if current_job and len(current_job) > 1
Emittable(job) == Cardinality(DOMAIN job) > 1

\* the new job a "COMPANY:" cell starts from
Started(st) ==
    IF Emittable(st.current_job)
    THEN [current_job |-> EmptyJob, jobs |-> Append(st.jobs, st.current_job)]
    ELSE st

\* the keys the three regular expressions fill, and what they match
Patterns ==
    <<[key |-> "Address", pieces |-> AddressPieces],
      [key |-> "Phone", pieces |-> PhonePieces],
      [key |-> "Email", pieces |-> EmailPieces]>>

\* if matches and key not in current_job: current_job[key] = matches[0]
RECURSIVE Found(_, _, _)
Found(job, t, patterns) ==
    IF patterns = <<>> THEN job
    ELSE LET piece == FirstPiece(t, Head(patterns).pieces)
             key == Head(patterns).key
         IN  Found(IF piece # <<>> /\ key \notin DOMAIN job
                   THEN SetField(job, key, piece) ELSE job,
                   t, Tail(patterns))

\* one cell of the loop of process_schedule_file
ProcessCell(st, cell, schedule_date, basename) ==
    IF ~IsStr(cell) THEN st
    ELSE
    LET t == cell.s
        started == Started(st)
        dated == [k \in DOMAIN started.current_job \cup {"Schedule_Date", "Source_File"} |->
                    IF k = "Schedule_Date" THEN schedule_date
                    ELSE IF k = "Source_File" THEN basename
                    ELSE started.current_job[k]]
        s1 == IF HasCompany(t) THEN [started EXCEPT !.current_job = dated] ELSE st
        job == IF HasColon(t) /\ KeyPart(t) # <<>> /\ ValuePart(t) # <<>>
               THEN SetField(s1.current_job, KeyPart(t)[1], ValuePart(t))
               ELSE s1.current_job
    IN  [s1 EXCEPT !.current_job = Found(job, t, Patterns)]

RECURSIVE ProcessCells(_, _, _, _)
ProcessCells(st, cells, schedule_date, basename) ==
    IF cells = <<>> THEN st
    ELSE ProcessCells(ProcessCell(st, Head(cells), schedule_date, basename),
                      Tail(cells), schedule_date, basename)

\* the jobs once the last cell is processed
Finished(st) ==
    IF Emittable(st.current_job) THEN Append(st.jobs, st.current_job) ELSE st.jobs

\* df.dropna(how='all') and then the cells row by row; no row of the loop is
\* all NaN after the dropna, so the branch for empty rows never runs
ScheduleCells(df) ==
    Flatten(SelectSeq(df.rows, LAMBDA r : \E j \in 1..Len(r) : ~isna(r[j])))

\* the jobs of one schedule file; any exception gives no job
process_schedule_file(entry) ==
    LET read == ReadCsv(entry.content, "skip")
    IN  IF ~read.ok THEN <<>>
        ELSE Finished(ProcessCells([current_job |-> EmptyJob, jobs |-> <<>>],
                                   ScheduleCells(read.df),
                                   extract_date_from_filename(entry.name, entry.mtime),
                                   FileChars(entry.name)))

\* glob.glob("exported_sheets_actual/*.csv")
schedule_files(dir) ==
    IF exists(dir, SheetsFolder) /\ dir[SheetsFolder].kind = "dir"
    THEN SelectSeq(dir[SheetsFolder].body, LAMBDA e : EndsWithCsv(e.name))
    ELSE <<>>

\* a job as a row of cells
JobRecord(job) == [k \in DOMAIN job |-> Str(job[k])]

all_jobs(dir) ==
    LET files == schedule_files(dir)
        jobs == Flatten([i \in 1..Len(files) |-> process_schedule_file(files[i])])
    IN  [i \in 1..Len(jobs) |-> JobRecord(jobs[i])]

\* process_daily_schedules(): the directory afterwards
process_daily_schedules(dir) ==
    LET jobs == all_jobs(dir)
    IN  IF jobs = <<>> THEN dir
        ELSE [dir EXCEPT ![Consolidated] = to_csv(DataFrameOf(jobs))]

\* one call of process_schedule_file by the consolidation script
ProcessScheduleFile(entry) ==
    /\ pc = "new"
    /\ results' = process_schedule_file(entry)
    /\ call' = [NoCall EXCEPT !.op = "process_schedule_file", !.file = entry.name]
    /\ pc' = "done"
    /\ UNCHANGED <<fs, csv_files, dataframes, invoked, pending>>

----------------------------------------------------------------------------
(* gkeep_adapter.py.  The notes file is read as one text, here a sequence  *)
(* of pieces: words, numbers, e-mail addresses, phone numbers, "," and     *)
(* white space.  A regular expression is a sequence of phrases with .*?    *)
(* between them; a phrase is a sequence of words with \s+ between them; a  *)
(* word is the set of pieces it matches (re.IGNORECASE).                   *)

ContextBefore == 50      \* text[match.start() - 50 : ...], counted in pieces
ContextAfter == 300      \* text[... : match.end() + 300], counted in pieces

\* the end of the run of white space that starts at i (i itself if none)
RECURSIVE SkipSpace(_, _)
SkipSpace(text, i) ==
    IF i <= Len(text) /\ IsSpace(text[i]) THEN SkipSpace(text, i + 1) ELSE i

\* the index after the match of the phrase at i, or 0
RECURSIVE MatchPhrase(_, _, _)
MatchPhrase(text, i, phrase) ==
    LET next == SkipSpace(text, i + 1)
    IN  IF i > Len(text) \/ text[i] \notin Head(phrase) THEN 0
        ELSE IF Len(phrase) = 1 THEN i + 1
        ELSE IF next = i + 1 THEN 0
        ELSE MatchPhrase(text, next, Tail(phrase))

\* the index after the earliest match of the phrase at or after i, or 0
RECURSIVE SearchPhrase(_, _, _)
SearchPhrase(text, i, phrase) ==
    LET e == MatchPhrase(text, i, phrase)
    IN  IF i > Len(text) THEN 0
        ELSE IF e # 0 THEN e
        ELSE SearchPhrase(text, i + 1, phrase)

\* the rest of the expression once its first phrase has ended before e
RECURSIVE Continue(_, _, _)
Continue(text, pattern, e) ==
    IF e = 0 THEN 0
    ELSE IF Len(pattern) = 1 THEN e
    ELSE Continue(text, Tail(pattern), SearchPhrase(text, e, Head(Tail(pattern))))

\* the index after the match of the expression at i, or 0
MatchAt(text, i, pattern) == Continue(text, pattern, MatchPhrase(text, i, Head(pattern)))

\* pattern.finditer(text): the matches [start, end) from left to right; e is
\* the end of the match at i, or 0
RECURSIVE Matches(_, _, _, _)
Matches(text, i, pattern, e) ==
    IF i > Len(text) THEN <<>>
    ELSE IF e # 0
    THEN <<[start |-> i, end |-> e]>> \o Matches(text, e, pattern, MatchAt(text, e, pattern))
    ELSE Matches(text, i + 1, pattern, MatchAt(text, i + 1, pattern))

finditer(text, pattern) == Matches(text, 1, pattern, MatchAt(text, 1, pattern))

\* the pieces the e-mail and the phone expressions match
GkeepEmails == {"kcw88@yahoo.com", "hw@mail.com", "mrfranciswong@gmail.com"}
GkeepPhones == {"905-820-1278", "416-555-0100"}

\* the four people the adapter looks for, in the order of the code: the
\* expression, the literals of the record, and the known values
People ==
    <<[pattern |-> << <<{"ANNA", "Anna"}, {"WONG", "Wong"}>>, <<{"Summit"}>> >>,
       full_name |-> <<"A", "n", "n", "a", " ", "W", "o", "n", "g">>,
       address |-> <<"4078 Summit Court", ",", " ", "Mississauga", ",", " ", "ON L5L 3J2">>,
       email |-> <<>>, default_email |-> <<"kcw88@yahoo.com">>,
       phones |-> GkeepPhones, default_phone |-> <<"905-820-1278">>],
      [pattern |-> << <<{"Hilda"}, {"WONG", "Wong"}>>, <<{"75"}, {"Dunvegan"}, {"Road"}>>,
                      <<{"Toronto"}>> >>,
       full_name |-> <<"H", "i", "l", "d", "a", " ", "W", "o", "n", "g">>,
       address |-> <<"75 Dunvegan Road", ",", " ", "Toronto", ",", " ", "ON">>,
       email |-> <<>>, default_email |-> <<>>,
       phones |-> GkeepPhones, default_phone |-> <<>>],
      [pattern |-> << <<{"Kenneth"}, {"Kwong"}>>, <<{"Fairfield"}, {"Rd"}>> >>,
       full_name |-> <<"K", "e", "n", "n", "e", "t", "h", " ", "K", "w", "o", "n", "g">>,
       address |-> <<"75 Fairfield Rd", ",", " ", "Toronto M4P 1S9">>,
       email |-> <<>>, default_email |-> <<>>,
       phones |-> GkeepPhones, default_phone |-> <<>>],
      [pattern |-> << <<{"Francis"}, {"WONG", "Wong", "Wu"}>>, <<{"mrfranciswong@gmail.com"}>> >>,
       full_name |-> <<"F", "r", "a", "n", "c", "i", "s", " ", "W", "o", "n", "g">>,
       address |-> <<"Elmwood Ave M2N 7C5">>,
       email |-> <<"mrfranciswong@gmail.com">>, default_email |-> <<>>,
       phones |-> GkeepPhones \cup {"437-555-0100"}, default_phone |-> <<>>]>>

\* ANNA.*?WONG | Wong.*?4078 | 4078.*?Summit
alt_anna_patterns ==
    { << <<{"ANNA", "Anna"}>>, <<{"WONG", "Wong"}>> >>,
      << <<{"WONG", "Wong"}>>, <<{"4078"}>> >>,
      << <<{"4078"}>>, <<{"Summit"}>> >> }

\* text[max(0, match.start() - 50) : min(len(text), match.end() + 300)]
Context(text, m) ==
    SubSeq(text, Max(1, m.start - ContextBefore), Min(Len(text), m.end - 1 + ContextAfter))

\* context.replace('\n', ' ').strip()
Notes(context) ==
    Strip([i \in 1..Len(context) |-> IF context[i] = "\n" THEN " " ELSE context[i]])

Client(full_name, address, email, phone, notes) ==
    [full_name |-> full_name, address |-> address, email |-> email, phone |-> phone,
     notes |-> notes, source |-> FileChars(GKeepSimple)]

OrElse(found, known) == IF found = <<>> THEN known ELSE found

\* the record of one match: the e-mail and the phone number are looked for
\* in the context of the match, a known e-mail address wins over a found
\* one, and a known value stands in for one that is not found
ContextClient(context, person) ==
    Client(person.full_name, person.address,
           OrElse(OrElse(person.email, FirstPiece(context, GkeepEmails)),
                  person.default_email),
           OrElse(FirstPiece(context, person.phones), person.default_phone),
           Notes(context))

MatchesClients(text, ms, person) ==
    [i \in 1..Len(ms) |-> ContextClient(Context(text, ms[i]), person)]

\* the records of the specific expression of one person
MatchClients(text, person) == MatchesClients(text, finditer(text, person.pattern), person)

\* the record added when the specific expression for Anna Wong finds nothing
KnownAnna(text) ==
    Client(People[1].full_name, People[1].address, People[1].default_email,
           People[1].default_phone,
           IF \E pattern \in alt_anna_patterns : finditer(text, pattern) # <<>>
           THEN <<"Information extracted from GKeep file">>
           ELSE <<"Added from known information">>)

\* the list before duplicates are removed
Collected(found, known) ==
    (IF found[1] # <<>> THEN found[1] ELSE <<known>>) \o found[2] \o found[3] \o found[4]

clients(text) ==
    Collected([i \in 1..Len(People) |-> MatchClients(text, People[i])], KnownAnna(text))

KeepAll(cs, seen_names) == cs

\* the first record of every full name, names compared in lower case
RECURSIVE Unique(_, _)
Unique(cs, seen_names) ==
    IF cs = <<>> THEN <<>>
    ELSE IF Lower(Head(cs).full_name) \in seen_names THEN Unique(Tail(cs), seen_names)
    ELSE <<Head(cs)>> \o Unique(Tail(cs), seen_names \cup {Lower(Head(cs).full_name)})

unique_clients(cs) == Unique(cs, {})

GkeepFields == <<"full_name", "address", "email", "phone", "notes", "source">>

\* csv.DictWriter.writerow: the fields in the order of fieldnames, then \r\n
DictWriterLine(client) ==
    LET line == CsvLine([j \in 1..Len(GkeepFields) |-> client[GkeepFields[j]]])
    IN  SubSeq(line, 1, Len(line) - 1) \o <<"\r", "\n">>

\* the text of a file as open(path).read() gives it: the header line is a
\* line of column names and holds none of the pieces the expressions match
ReadText(content) == content.body

AppendStructured(old, lines) == CsvFile(GkeepFields, old.body \o lines)

\* the file a run writes: open(output_file, 'w') replaces what was there
WriteStructured(old, lines) == CsvFile(GkeepFields, lines)

\* writer.writerow(client) for every client
ClientLines(cs) == Flatten([i \in 1..Len(cs) |-> DictWriterLine(cs[i])])

\* extract_gkeep_data(): the directory afterwards ([ok |-> FALSE] when the
\* notes file cannot be opened or decoded and the function raises)
extract_gkeep_data(dir) ==
    IF dir[GKeepSimple].kind # "csv" THEN [ok |-> FALSE, dir |-> dir]
    ELSE [ok |-> TRUE,
          dir |-> [dir EXCEPT ![GKeepStructured] =
                      WriteStructured(dir[GKeepStructured],
                          ClientLines(unique_clients(clients(ReadText(dir[GKeepSimple])))))]]

----------------------------------------------------------------------------
(* DeepSearchAgent.filter_by_date_range, combined_search, display_results  *)
(* and analyze_file.  A function that can raise gives [ok, records].       *)

\* pd.to_datetime(value): a text is parsed, a number counts from the epoch
to_datetime(v) ==
    IF IsStr(v) THEN date_parse(v.s) ELSE Parsed(DateTime(1970, 1, 1, 0, 0))

\* pd.to_datetime(bound) if bound else None; no bound admits every date
FilterBound(text, default) == IF text = <<>> THEN Parsed(default) ELSE date_parse(text)

\* date_found: a field that is a date between the bounds
InBounds(v, start, end) ==
    ~isna(v) /\ to_datetime(v).ok /\ InRange(start, to_datetime(v).dt, end)

Kept(records, start, end) ==
    SelectSeq(records, LAMBDA r : \E k \in DOMAIN r : InBounds(r[k], start, end))

Returned(records) == [ok |-> TRUE, records |-> records]
Raised == [ok |-> FALSE, records |-> <<>>]

Filtered(records, start, end) ==
    IF start.ok /\ end.ok THEN Returned(Kept(records, start.dt, end.dt)) ELSE Raised

filter_by_date_range(records, start_date, end_date) ==
    IF records = <<>> \/ (start_date = <<>> /\ end_date = <<>>) THEN Returned(records)
    ELSE Filtered(records, FilterBound(start_date, datetime_min),
                  FilterBound(end_date, datetime_max))

MatchesAny(record, filters) ==
    \E i \in 1..Len(filters) :
        /\ filters[i].column \in DOMAIN record
        /\ Contains(Lower(filters[i].value), Lower(str(record[filters[i].column])))

\* the filters of combined_search: every column is a field of the record
\* and its text holds the text of the filter, both in lower case
MatchesAll(record, filters) ==
    \A i \in 1..Len(filters) :
        /\ filters[i].column \in DOMAIN record
        /\ Contains(Lower(filters[i].value), Lower(str(record[filters[i].column])))

WithFilters(found, filters) ==
    IF found.ok /\ filters # <<>> /\ found.records # <<>>
    THEN Returned(SelectSeq(found.records, LAMBDA r : MatchesAll(r, filters)))
    ELSE found

SearchedOrEverything(frames, query, fuzzy, min_score, case_sensitive) ==
    IF fuzzy /\ query # <<>> THEN fuzzy_search(frames, query, min_score, NoColumns)
    ELSE exact_search(frames, query, case_sensitive, NoColumns)

\* the first step of combined_search: the search for the query, if any
Searched(frames, query, fuzzy, min_score, case_sensitive) ==
    IF query = <<>> THEN <<>>
    ELSE IF fuzzy THEN fuzzy_search(frames, query, min_score, NoColumns)
    ELSE exact_search(frames, query, case_sensitive, NoColumns)

combined_search(frames, query, fuzzy, min_score, start_date, end_date, filters, case_sensitive) ==
    WithFilters(filter_by_date_range(Searched(frames, query, fuzzy, min_score, case_sensitive),
                                     start_date, end_date),
                filters)

ShownWithNaN(record, max_columns, show_scores) ==
    LET fields == SelectSeq(FieldOrder, LAMBDA k : k \in DOMAIN record /\ k \notin MetaFields)
    IN  [source |-> IF "file" \in DOMAIN record THEN record["file"].s ELSE <<"Unknown file">>,
         score |-> show_scores /\ "match_score" \in DOMAIN record
                     /\ record["match_score"] # Num(0),
         matching_value |-> "matching_value" \in DOMAIN record
                              /\ record["matching_value"] # Str(<<>>),
         fields |-> IF max_columns # 0 /\ Len(fields) > max_columns
                    THEN SubSeq(fields, 1, max_columns) ELSE fields]

\* what display_results prints for one record: its source, its score and
\* matching value if asked for and not empty, and its fields that are not
\* NaN, at most max_columns of them (0 stands for None)
Shown(record, max_columns, show_scores) ==
    LET fields == SelectSeq(FieldOrder, LAMBDA k : k \in DOMAIN record /\ k \notin MetaFields)
        some == IF max_columns # 0 /\ Len(fields) > max_columns
                THEN SubSeq(fields, 1, max_columns) ELSE fields
    IN  [source |-> IF "file" \in DOMAIN record THEN record["file"].s ELSE <<"Unknown file">>,
         score |-> show_scores /\ "match_score" \in DOMAIN record
                     /\ record["match_score"] # Num(0),
         matching_value |-> "matching_value" \in DOMAIN record
                              /\ record["matching_value"] # Str(<<>>),
         fields |-> SelectSeq(some, LAMBDA k : ~isna(record[k]))]

display_results(records, max_columns, show_scores) ==
    [i \in 1..Len(records) |-> Shown(records[i], max_columns, show_scores)]

\* df.shape, df.columns.tolist() and df.head()
Described(df) ==
    <<[shape |-> <<Len(df.rows), Len(df.cols)>>, columns |-> df.cols,
       head |-> SubSeq(df.rows, 1, Min(5, Len(df.rows)))]>>

AnalyzedAndKept(frames, file_name, read) ==
    [dataframes |-> IF read.ok THEN Append(frames, [file |-> file_name, df |-> read.df])
                    ELSE frames,
     printed |-> IF read.ok THEN Described(read.df) ELSE <<>>]

\* analyze_file of a file that is not in the mapping: the table read from
\* the directory is a local variable, the mapping stays as it is
Analyzed(frames, file_name, read) ==
    [dataframes |-> frames, printed |-> IF read.ok THEN Described(read.df) ELSE <<>>]

\* the mapping after analyze_file(file_name), and what the call printed
analyze_file(frames, dir, file_name) ==
    IF file_name \in Range(Keys(frames))
    THEN [dataframes |-> frames,
          printed |-> Described((CHOOSE d \in Range(frames) : d.file = file_name).df)]
    ELSE Analyzed(frames, file_name, read_csv(dir[file_name]))

----------------------------------------------------------------------------
(* Construction of a DeepSearchAgent: __init__, in four kinds of steps.    *)

RECURSIVE Orderings(_)
Orderings(S) ==
    IF S = {} THEN {<<>>}
    ELSE UNION {{<<x>> \o rest : rest \in Orderings(S \ {x})} : x \in S}

\* [f for f in os.listdir('.') if f.endswith('.csv')], in any order
Listings(dir) == Orderings({p \in DOMAIN dir : exists(dir, p) /\ EndsWithCsv(p)})

\* importlib: exec_module of a script file raises when the script is broken
Importable(content) == content.kind = "script"

\* what a method _ensure_... reports: the directory afterwards, whether the
\* entry function of the generator was called, and whether the method raised
Ran(dir, raised) == [dir |-> dir, called |-> TRUE, raised |-> raised]
NotRun(dir, raised) == [dir |-> dir, called |-> FALSE, raised |-> raised]

GkeepRan(run) == Ran(run.dir, ~run.ok)

\* _ensure_gkeep_structured()
ensure_gkeep_structured(dir) ==
    IF ~exists(dir, GKeepStructured) /\ exists(dir, GkeepAdapter)
    THEN IF Importable(dir[GkeepAdapter]) THEN GkeepRan(extract_gkeep_data(dir))
         ELSE NotRun(dir, TRUE)
    ELSE NotRun(dir, FALSE)

\* _ensure_consolidated_schedules()
ensure_consolidated_schedules(dir) ==
    IF ~exists(dir, Consolidated) /\ exists(dir, ScheduleProcessor)
    THEN IF Importable(dir[ScheduleProcessor]) THEN Ran(process_daily_schedules(dir), FALSE)
         ELSE NotRun(dir, TRUE)
    ELSE NotRun(dir, FALSE)

ListedAsIs(files, dir, derived, raised) == files

\* if os.path.exists(derived): csv_files.append(derived), unless the
\* generator raised and the except clause was entered instead
WithDerived(files, dir, derived, raised) ==
    IF ~raised /\ exists(dir, derived) THEN Append(files, derived) ELSE files

Uncaught(raised, next) == IF raised THEN "crashed" ELSE next

\* "except Exception" around a generator and around the load of one file:
\* the exception is printed and the constructor goes on
Caught(raised, next) == next

\* the first line of __init__: a new agent lists the directory
ListDir(listing) ==
    /\ pc \in {"new", "done", "ready"}
    /\ listing \in Listings(fs)
    /\ csv_files' = listing
    /\ pc' = "ensure_gkeep"
    /\ dataframes' = <<>>
    /\ invoked' = {}
    /\ pending' = <<>>
    /\ results' = <<>>
    /\ UNCHANGED <<fs, call>>

\* one of the two blocks of _get_csv_files: if the derived file is wanted,
\* the method is tried and the file it left is added to the list
Ensure(wanted, run, derived, generator, next) ==
    IF wanted
    THEN /\ fs' = run.dir
         /\ invoked' = IF run.called THEN invoked \cup {generator} ELSE invoked
         /\ csv_files' = WithDerived(csv_files, run.dir, derived, run.raised)
         /\ pc' = Caught(run.raised, next)
    ELSE /\ pc' = next
         /\ UNCHANGED <<fs, invoked, csv_files>>

\* _get_csv_files, lines 32-39
EnsureGkeep ==
    /\ pc = "ensure_gkeep"
    /\ Ensure(GKeepStructured \notin Range(csv_files) /\ GKeepSimple \in Range(csv_files),
              ensure_gkeep_structured(fs), GKeepStructured, "extract_gkeep_data",
              "ensure_schedules")
    /\ UNCHANGED <<dataframes, pending, results, call>>

\* _get_csv_files, lines 42-51, and "self.dataframes = {}"
EnsureSchedules ==
    /\ pc = "ensure_schedules"
    /\ Ensure(Consolidated \notin Range(csv_files) /\ exists(fs, SheetsFolder),
              ensure_consolidated_schedules(fs), Consolidated, "process_daily_schedules",
              "load")
    /\ pending' = csv_files'
    /\ dataframes' = <<>>
    /\ UNCHANGED <<results, call>>

LoadedAnyway(file, files) == FALSE

\* if file == 'GKeep (Simple).csv' and 'GKeep_Structured.csv' in self.csv_files
Skipped(file, files) == file = GKeepSimple /\ GKeepStructured \in Range(files)

\* one iteration of the loop of load_csv_files
LoadFile ==
    /\ pc = "load"
    /\ pending # <<>>
    /\ LET file == Head(pending)
           read == read_csv(fs[file])
       IN  IF Skipped(file, csv_files)
           THEN /\ dataframes' = dataframes
                /\ pc' = "load"
           ELSE /\ dataframes' = IF read.ok
                                  THEN Append(dataframes, [file |-> file, df |-> read.df])
                                  ELSE dataframes
                /\ pc' = Caught(~read.ok, "load")
    /\ pending' = Tail(pending)
    /\ UNCHANGED <<fs, csv_files, invoked, results, call>>

\* the loop is over: __init__ returns
Constructed ==
    /\ pc = "load"
    /\ pending = <<>>
    /\ pc' = "ready"
    /\ UNCHANGED <<fs, csv_files, dataframes, invoked, pending, results, call>>

----------------------------------------------------------------------------
(* Operations of a constructed agent that touch the directory. *)

ExportResults(records, output_file) ==
    /\ pc = "ready"
    /\ fs' = export_results(fs, records, output_file)
    /\ results' = <<>>
    /\ call' = [NoCall EXCEPT !.op = "export_results", !.records = records,
                              !.file = output_file]
    /\ UNCHANGED <<csv_files, dataframes, invoked, pending>>

FilterByDateRange(records, start_date, end_date) ==
    /\ pc = "ready"
    /\ results' = filter_by_date_range(records, start_date, end_date).records
    /\ call' = [NoCall EXCEPT !.op = "filter_by_date_range", !.records = records,
                              !.start_date = start_date, !.end_date = end_date,
                              !.raised = ~filter_by_date_range(records, start_date,
                                                               end_date).ok]
    /\ UNCHANGED <<fs, csv_files, dataframes, invoked, pending>>

\* combined_search with the query, the kind of search (min_score is left
\* at 70, date_columns at None), the two bounds and the filters
CombinedSearch(query, fuzzy, start_date, end_date, filters) ==
    /\ pc = "ready"
    /\ results' = combined_search(dataframes, query, fuzzy, 70, start_date, end_date,
                                  filters, FALSE).records
    /\ call' = [NoCall EXCEPT !.op = "combined_search", !.query = query, !.fuzzy = fuzzy,
                              !.threshold = 70, !.start_date = start_date,
                              !.end_date = end_date, !.filters = filters,
                              !.raised = ~combined_search(dataframes, query, fuzzy, 70,
                                                          start_date, end_date, filters,
                                                          FALSE).ok]
    /\ UNCHANGED <<fs, csv_files, dataframes, invoked, pending>>

DisplayResults(records, max_columns, show_scores) ==
    /\ pc = "ready"
    /\ results' = display_results(records, max_columns, show_scores)
    /\ call' = [NoCall EXCEPT !.op = "display_results", !.records = records,
                              !.max_columns = max_columns, !.show_scores = show_scores]
    /\ UNCHANGED <<fs, csv_files, dataframes, invoked, pending>>

AnalyzeFile(file_name) ==
    /\ pc = "ready"
    /\ dataframes' = analyze_file(dataframes, fs, file_name).dataframes
    /\ results' = analyze_file(dataframes, fs, file_name).printed
    /\ call' = [NoCall EXCEPT !.op = "analyze_file", !.file = file_name]
    /\ UNCHANGED <<fs, csv_files, invoked, pending>>

----------------------------------------------------------------------------
(* SpecExport: a process searches a.csv and exports what it found, or      *)
(* exports a list its caller built; a second process then constructs an    *)
(* agent in the same directory, which loads the exported file.             *)

ExportAlphabet == {"a", "0", "7", ",", "\""}

ExportTexts == SeqsUpTo(ExportAlphabet, MaxLen)

\* a.csv: the columns name and zip, one or two lines
ExportSources ==
    LET first == {<<t, z>> : t \in ExportTexts, z \in {<<>>, <<"7">>}}
        second == <<<<"a">>, <<"7">>>>
    IN  {CsvFile(<<"name", "zip">>, CsvLine(r)) : r \in first}
        \cup {CsvFile(<<"name", "zip">>, CsvLine(r) \o CsvLine(second)) : r \in first}

\* lists a caller of export_results can build itself
CallerLists ==
    {<<[name |-> Str(t), file |-> Str(FileChars("a.csv"))]>> :
        t \in SeqsUpTo({"N", "A"}, MaxLen)}

ExportQueries == {<<"a">>, <<"0">>, <<"7">>, <<",">>}

ExportPaths == {"out.csv", "out.json"}

\* the agent as its constructor leaves it in a directory with a.csv only
InitExport ==
    /\ fs \in {[EmptyDir EXCEPT !["a.csv"] = c] : c \in ExportSources}
    /\ pc = "ready"
    /\ csv_files = <<"a.csv">>
    /\ dataframes = LET read == read_csv(fs["a.csv"])
                    IN  IF read.ok THEN <<[file |-> "a.csv", df |-> read.df]>> ELSE <<>>
    /\ invoked = {}
    /\ pending = <<>>
    /\ results = <<>>
    /\ call = NoCall

NextExport ==
    \/ call.op = "none" /\ \E q \in ExportQueries : Served(ExactSearch(q, FALSE, NoColumns))
    \/ call.op = "none" /\ \E q \in ExportQueries : Served(FuzzySearch(q, 50, NoColumns))
    \/ call.op \in {"exact_search", "fuzzy_search"}
          /\ \E path \in ExportPaths : Once(ExportResults(results, path))
    \/ call.op = "none"
          /\ \E records \in CallerLists, path \in ExportPaths :
                Once(ExportResults(records, path))
    \/ pc = "done" /\ \E listing \in Listings(fs) : ListDir(listing)
    \/ EnsureGkeep
    \/ EnsureSchedules
    \/ LoadFile
    \/ Constructed

SpecExport == InitExport /\ [][NextExport]_vars

\* the table the second agent loaded from the exported file
Reloaded == (CHOOSE d \in Range(dataframes) : d.file = call.file).df

\* the exported list has been written as CSV and the directory loaded again
ExportedAndReloaded ==
    /\ pc = "ready"
    /\ call.op = "export_results"
    /\ call.records # <<>>
    /\ EndsWithCsv(call.file)

\* the string fields of the exported list: record number and key
StringFields ==
    {<<i, k>> \in (1..Len(call.records)) \X Range(FieldOrder) :
        k \in DOMAIN call.records[i] /\ IsStr(call.records[i][k])}

\* field k of record i comes back as a present value with the same str()
Preserved(i, k) ==
    /\ call.file \in Range(Keys(dataframes))
    /\ k \in Range(Reloaded.cols)
    /\ i <= Len(Reloaded.rows)
    /\ ~isna(Cell(Reloaded, i, k))
    /\ str(Cell(Reloaded, i, k)) = call.records[i][k].s

WrittenTexts(k) ==
    {IF k \in DOMAIN call.records[i]
     THEN FieldText(call.records[i][k], FALSE) ELSE <<>> : i \in 1..Len(call.records)}

----------------------------------------------------------------------------
(* Spec: agents are constructed, one after the other, in a directory that  *)
(* may hold a dataset, the notes file, the folder of daily schedules and   *)
(* the two generator scripts; the scripts are also run on their own.       *)

Script == [kind |-> "script", header |-> <<>>, body |-> <<>>]
BrokenScript == [kind |-> "broken", header |-> <<>>, body |-> <<>>]

\* python gkeep_adapter.py
RunGkeepAdapter ==
    /\ pc \in {"new", "ready"}
    /\ Importable(fs[GkeepAdapter])
    /\ fs' = extract_gkeep_data(fs).dir
    /\ UNCHANGED <<pc, csv_files, dataframes, invoked, pending, results, call>>

\* python daily_schedule_processor.py
RunScheduleProcessor ==
    /\ pc \in {"new", "ready"}
    /\ Importable(fs[ScheduleProcessor])
    /\ fs' = process_daily_schedules(fs)
    /\ UNCHANGED <<pc, csv_files, dataframes, invoked, pending, results, call>>

\* a notes file: the first person twice, a second person, an e-mail address
NotesText ==
    <<"ANNA", " ", "WONG", " ", "4078", " ", "Summit", " ", "kcw88@yahoo.com", "\n",
      "Hilda", " ", "Wong", " ", "75", " ", "Dunvegan", " ", "Road", " ", "Toronto", "\n",
      "Anna", " ", " ", "Wong", " ", "Summit", "\n">>

\* a schedule file: a header line and the lines of cells below it
ScheduleFile(name, rows) ==
    [name |-> name, mtime |-> <<"2", "0", "2", "4", "-", "0", "2", "-", "0", "1">>,
     content |-> CsvFile(<<"c1", "c2">>, Flatten([i \in 1..Len(rows) |-> CsvLine(rows[i])]))]

CompanyCell == <<"COMPANY", ":", " ", "Acme">>
NameCell == <<"Name", ":", " ", "Bob">>

Folders ==
    {Absent,
     Folder(<<ScheduleFile("notes.csv", <<<<<<"hello">>, <<>>>>>>)>>),
     Folder(<<ScheduleFile("01_15_24.csv", <<<<CompanyCell, NameCell>>>>),
              ScheduleFile("notes.csv", <<<<<<"hello">>, <<>>>>>>)>>)}

\* the two scripts: both there, both missing, both broken, only the first
ScriptPairs ==
    {<<Script, Script>>, <<Absent, Absent>>, <<BrokenScript, BrokenScript>>,
     <<Script, Absent>>}

Directories ==
    {[p \in Paths |->
        CASE p = "a.csv" -> a
          [] p = GKeepSimple -> simple
          [] p = GKeepStructured -> structured
          [] p = GkeepAdapter -> scripts[1]
          [] p = ScheduleProcessor -> scripts[2]
          [] p = SheetsFolder -> folder
          [] OTHER -> Absent] :
        a \in {CsvFile(<<"name">>, <<"a", "\n">>), Unreadable},
        simple \in {Absent, CsvFile(<<"note">>, NotesText), Unreadable},
        structured \in {Absent, Unreadable},
        scripts \in ScriptPairs,
        folder \in Folders}

Init ==
    /\ fs \in Directories
    /\ pc = "new"
    /\ csv_files = <<>>
    /\ dataframes = <<>>
    /\ invoked = {}
    /\ pending = <<>>
    /\ results = <<>>
    /\ call = NoCall

Next ==
    \/ \E listing \in Listings(fs) : ListDir(listing)
    \/ EnsureGkeep
    \/ EnsureSchedules
    \/ LoadFile
    \/ Constructed
    \/ RunGkeepAdapter
    \/ RunScheduleProcessor

Spec == Init /\ [][Next]_vars

\* pd.read_csv succeeds on the file as the directory holds it
Readable(f) == read_csv(fs[f]).ok

Loaded == Range(Keys(dataframes))

\* the step with which a constructor returns
Returns == pc = "load" /\ pc' = "ready"

\* C7 as stated, its last part: when a constructor returns, every listed
\* file that can be read is in the dataframes mapping.
C7_EveryReadableFileLoaded ==
    [][Returns => \A f \in Range(csv_files) : Readable(f) => f \in Loaded]_vars

\* C7, amended: a constructor never raises; when it returns, the mapping
\* holds exactly the listed files that can be read, except that
\* GKeep (Simple).csv is left out whenever GKeep_Structured.csv is listed.
C7_FailuresAreSkipped ==
    /\ [](pc # "crashed")
    /\ [][Returns =>
            \A f \in Paths :
                f \in Loaded <=>
                    /\ f \in Range(csv_files)
                    /\ Readable(f)
                    /\ ~(f = GKeepSimple /\ GKeepStructured \in Range(csv_files))]_vars

\* an agent is constructed although a listed file could not be read and the
\* script of a wanted generator could not be imported; another file is loaded
C7_Witness ==
    /\ pc = "ready"
    /\ \E f \in Range(csv_files) : ~Readable(f)
    /\ Loaded # {}
    /\ fs[ScheduleProcessor].kind = "broken"
    /\ exists(fs, SheetsFolder)
    /\ ~exists(fs, Consolidated)

\* the entry functions of the generators, the file each one derives, and
\* the step of the constructor that may call it
Generators ==
    {[entry |-> "extract_gkeep_data", derived |-> GKeepStructured, at |-> "ensure_gkeep"],
     [entry |-> "process_daily_schedules", derived |-> Consolidated,
      at |-> "ensure_schedules"]}

\* C9 as stated, its first part: a generator is invoked by a construction
\* exactly when its derived file is absent from the directory.
C9_InvokedIffAbsent ==
    [][\A g \in Generators :
          pc = g.at => (g.entry \in invoked' <=> ~exists(fs, g.derived))]_vars

\* what the generator needs besides the absence of the derived file
SourceAndScript(g) ==
    IF g.derived = GKeepStructured
    THEN exists(fs, GKeepSimple) /\ fs[GkeepAdapter].kind = "script"
    ELSE exists(fs, SheetsFolder) /\ fs[ScheduleProcessor].kind = "script"

\* C9, amended: a generator is invoked exactly when its derived file is
\* absent, its source is in the directory and its script is there and can
\* be imported; it is invoked before any file is loaded; and when the
\* constructor returns, a derived file that an invoked generator left is in
\* the file list, and in the mapping if it can be read.
C9_Bootstrap ==
    /\ [][\A g \in Generators :
            pc = g.at =>
                (g.entry \in invoked' <=> ~exists(fs, g.derived) /\ SourceAndScript(g))]_vars
    /\ [][invoked' # invoked /\ invoked' # {} =>
            dataframes = <<>> /\ dataframes' = <<>>]_vars
    /\ [][Returns =>
            \A g \in Generators :
                g.entry \in invoked /\ exists(fs, g.derived) =>
                    /\ g.derived \in Range(csv_files)
                    /\ Readable(g.derived) => g.derived \in Loaded]_vars

\* a construction has invoked both generators and loaded both derived files
C9_Witness ==
    /\ pc = "ready"
    /\ invoked = {"extract_gkeep_data", "process_daily_schedules"}
    /\ {GKeepStructured, Consolidated} \subseteq Loaded

\* C10: a second run of a generator leaves the directory as the first run
\* left it, and a construction in a directory that holds the derived file
\* does not invoke the generator of that file.
C10_GenerationIsIdempotent ==
    /\ [](extract_gkeep_data(extract_gkeep_data(fs).dir).dir = extract_gkeep_data(fs).dir)
    /\ [](process_daily_schedules(process_daily_schedules(fs)) = process_daily_schedules(fs))
    /\ [][\A g \in Generators :
            exists(fs, g.derived) /\ g.entry \notin invoked => g.entry \notin invoked']_vars

\* an agent was constructed without a call of a generator in a directory
\* where both generators have written their files and could run again
C10_Witness ==
    /\ pc = "ready"
    /\ invoked = {}
    /\ fs[GKeepStructured].kind = "csv" /\ fs[GKeepStructured].body # <<>>
    /\ fs[Consolidated].kind = "csv"
    /\ \A g \in Generators : SourceAndScript(g)
    /\ {GKeepStructured, Consolidated} \subseteq Loaded


----------------------------------------------------------------------------
(* SpecServe: a long-lived agent, constructed in a directory with a.csv    *)
(* and with consolidated_schedules.csv missing or unreadable, serves any   *)
(* sequence of searches, filters, exports, displays and file analyses.     *)

ServeRows ==
    {<<<<t, w>>, <<<<"a", "b">>, D16>>>> :
        t \in {<<"A", " ">>}, w \in {D14, D15Morning, <<>>}}

ServeSources ==
    {CsvFile(<<"name", "when">>, CsvLine(r[1]) \o CsvLine(r[2])) : r \in ServeRows}

ServeDirs ==
    {[EmptyDir EXCEPT !["a.csv"] = c, ![Consolidated] = k] :
        c \in ServeSources, k \in {Absent, Unreadable}}

ServeQueries == {<<>>, <<"a">>}

\* the bounds of a call: none, both, the end only, and a start that is no date
ServeBounds == {<<<<>>, <<>>>>, <<D14, D15>>, <<<<>>, D14>>, <<NotADate, <<>>>>}

ServeFilters ==
    {<<>>,
     <<[column |-> "name", value |-> <<"B">>]>>,
     <<[column |-> "name", value |-> <<"A">>], [column |-> "when", value |-> <<"2", "0">>]>>,
     <<[column |-> "name", value |-> <<"A">>], [column |-> "zip", value |-> <<"7">>]>>}

\* the calls of combined_search: query, fuzzy, bounds, filters
ServeCombined ==
    {<<q, fuzzy, b, filters>> :
        q \in ServeQueries, fuzzy \in BOOLEAN,
        b \in {<<<<>>, <<>>>>, <<D14, D15>>, <<NotADate, <<>>>>}, filters \in ServeFilters}

ServeFiles == {"a.csv", "out.csv", Consolidated}

\* the operations whose result is a list of records
RecordOps == {"exact_search", "fuzzy_search", "filter_by_date_range", "combined_search"}

InitServe ==
    /\ fs \in ServeDirs
    /\ pc = "ready"
    /\ csv_files = IF exists(fs, Consolidated) THEN <<"a.csv", Consolidated>>
                   ELSE <<"a.csv">>
    /\ dataframes = <<[file |-> "a.csv", df |-> read_csv(fs["a.csv"]).df]>>
    /\ invoked = {}
    /\ pending = <<>>
    /\ results = <<>>
    /\ call = NoCall

NextServe ==
    \/ \E q \in ServeQueries \ {<<>>} : Served(ExactSearch(q, FALSE, NoColumns))
    \/ \E q \in ServeQueries \ {<<>>} : Served(FuzzySearch(q, 50, NoColumns))
    \/ \E b \in ServeBounds : Served(DateRangeSearch(b[1], b[2], NoColumns))
    \/ call.op \in RecordOps
          /\ \E b \in ServeBounds : Served(FilterByDateRange(results, b[1], b[2]))
    \/ \E c \in ServeCombined : Served(CombinedSearch(c[1], c[2], c[3][1], c[3][2], c[4]))
    \/ call.op \in RecordOps
          /\ Served(ExportResults(results, "out.csv"))
    \/ call.op \in RecordOps
          /\ \E show_scores \in BOOLEAN :
                Served(DisplayResults(results, IF show_scores THEN 0 ELSE 1, show_scores))
    \/ \E file_name \in ServeFiles : Served(AnalyzeFile(file_name))

SpecServe == InitServe /\ [][NextServe]_vars

\* the files a list of results says its records come from
SourcesOf(op, found) ==
    IF op \in RecordOps THEN {found[i]["file"].s : i \in 1..Len(found)}
    ELSE IF op = "date_range_search" THEN {FileChars(found[i].file) : i \in 1..Len(found)}
    ELSE {}

\* C8: once the agent is constructed, no operation served by it changes
\* the mapping of loaded datasets, and every result comes from a file of
\* that mapping: a file that was missing or unreadable at construction, or
\* written later, is never searched.
C8_DataframesFixedAfterConstruction ==
    [][pc = "ready" /\ pc' = "ready"
          => /\ dataframes' = dataframes
             /\ SourcesOf(call'.op, results')
                    \subseteq {FileChars(f) : f \in Range(Keys(dataframes))}]_vars

\* an export was written, analyze_file has read it back from the directory,
\* and it is still not among the loaded datasets
C8_Witness ==
    /\ call.op = "analyze_file" /\ call.file = "out.csv"
    /\ fs["out.csv"].kind = "csv"
    /\ results # <<>>
    /\ Keys(dataframes) = <<"a.csv">>


----------------------------------------------------------------------------
(* SpecSchedule: the consolidation script processes the one file of the    *)
(* folder of daily schedules.                                              *)

PhoneCell == <<"Phone", ":", " ", "905-555-0100">>
DatedCell == <<"Schedule_Date", ":", " ", "1999">>

\* a row of a schedule sheet: the second cell may be empty or start a job
ScheduleRowKinds ==
    {<<c1, c2>> : c1 \in {CompanyCell, NameCell, PhoneCell, DatedCell},
                  c2 \in {<<>>, NameCell, CompanyCell}}

ScheduleNames == {"01_15_24.csv", "notes.csv"}

InitSchedule ==
    /\ fs \in {[EmptyDir EXCEPT ![SheetsFolder] = Folder(<<ScheduleFile(name, rows)>>)] :
                  name \in ScheduleNames,
                  rows \in SeqsUpTo(ScheduleRowKinds, MaxRows) \ {<<>>}}
    /\ pc = "new"
    /\ csv_files = <<>>
    /\ dataframes = <<>>
    /\ invoked = {}
    /\ pending = <<>>
    /\ results = <<>>
    /\ call = NoCall

NextSchedule ==
    \E i \in 1..Len(schedule_files(fs)) : ProcessScheduleFile(schedule_files(fs)[i])

SpecSchedule == InitSchedule /\ [][NextSchedule]_vars

\* C6: every job process_schedule_file returns for the file 01_15_24.csv
\* has Schedule_Date 2024-01-15, whatever the cells of the file are.
C6_EveryJobIsDated ==
    call.op = "process_schedule_file" /\ call.file = "01_15_24.csv"
        => \A i \in 1..Len(results) :
              /\ "Schedule_Date" \in DOMAIN results[i]
              /\ results[i]["Schedule_Date"] = D15


----------------------------------------------------------------------------
(* combined_search under SpecServe. *)

\* the records the search stage of a call gives
SearchStage(frames, c) ==
    IF c.query = <<>> THEN <<>>
    ELSE IF c.fuzzy THEN fuzzy_search(frames, c.query, c.threshold, NoColumns)
    ELSE exact_search(frames, c.query, c.case_sensitive, NoColumns)

\* of these, the records the date stage keeps
DateStage(frames, c) ==
    IF c.start_date = <<>> /\ c.end_date = <<>> THEN SearchStage(frames, c)
    ELSE filter_by_date_range(SearchStage(frames, c), c.start_date, c.end_date).records

\* the record has the column of the filter and its text holds the value
FilterHolds(record, filter) ==
    /\ filter.column \in DOMAIN record
    /\ Contains(Lower(filter.value), Lower(str(record[filter.column])))

\* C16: combined_search returns the records of the search that the date
\* filter keeps and that satisfy every column filter: the record has the
\* column and its text, in lower case, contains the value in lower case
C16_StagesAndAllFilters ==
    (call.op = "combined_search" /\ ~call.raised) =>
        results = SelectSeq(DateStage(dataframes, call),
                            LAMBDA r : \A f \in Range(call.filters) : FilterHolds(r, f))

\* a call with a query, two bounds and two filters returned some of the
\* records of its search and dropped others
C16_Witness ==
    /\ call.op = "combined_search" /\ ~call.raised
    /\ call.query # <<>> /\ call.start_date # <<>> /\ call.end_date # <<>>
    /\ Len(call.filters) = 2
    /\ results # <<>>
    /\ Len(results) < Len(SearchStage(dataframes, call))


----------------------------------------------------------------------------
(* display_results and export_results under SpecServe. *)

\* the keys of the records of a list
KeysOf(records) == UNION {DOMAIN records[i] : i \in 1..Len(records)}

\* the text the exported CSV file holds for a value; none for a missing one
WrittenAs(v, text) == IF isna(v) THEN text = <<>> ELSE text # <<>>

\* the CSV file has a column for every key of the records and one line for
\* each record, with a field for every column, empty where the record has
\* no value
KeepsAll(out, lines, records) ==
    /\ out.kind = "csv"
    /\ Range(out.header) = KeysOf(records)
    /\ Len(lines) = Len(records)
    /\ \A i \in 1..Len(records) :
          /\ Len(lines[i]) = Len(out.header)
          /\ \A j \in 1..Len(out.header) :
                WrittenAs(IF out.header[j] \in DOMAIN records[i]
                          THEN records[i][out.header[j]] ELSE NaN,
                          lines[i][j])

\* C17: display_results prints a line for each record and no field whose
\* value is missing; export_results to a CSV file writes a line for every
\* record with every field, the missing ones included
C17_SkippedOnDisplayKeptOnExport ==
    /\ call.op = "display_results" =>
          /\ Len(results) = Len(call.records)
          /\ \A i \in 1..Len(results) :
                \A k \in Range(results[i].fields) : ~isna(call.records[i][k])
    /\ (call.op = "export_results" /\ call.records # <<>> /\ EndsWithCsv(call.file)) =>
          KeepsAll(fs[call.file], Tokenize(fs[call.file].body), call.records)

\* a list with a record that lacks a value was exported, with an empty
\* field in the file, and is now displayed without that field
C17_Witness ==
    /\ call.op = "display_results"
    /\ \E i \in 1..Len(results) :
          /\ isna(call.records[i]["when"])
          /\ "when" \notin Range(results[i].fields)
          /\ "name" \in Range(results[i].fields)
    /\ fs["out.csv"] = to_csv(DataFrameOf(call.records))
    /\ \E l \in Range(Tokenize(fs["out.csv"].body)) : <<>> \in Range(l)


\* C18: a start or end date that is no date makes none of date_range_search,
\* filter_by_date_range and combined_search raise to its caller
C18_MalformedDatesDoNotRaise ==
    call.op \in {"date_range_search", "filter_by_date_range", "combined_search"}
        => ~call.raised


----------------------------------------------------------------------------
(* web_search_interface.py: the route POST /search of the web front end,   *)
(* for requests without extract_pattern.  The form field "columns" is the  *)
(* list of the names between its commas; "" is a blank name.               *)

\* None in a response
None == [t |-> "none", s |-> <<>>, n |-> 0]

\* columns: the split field, or None if it is empty or one blank name
FormColumns(field) ==
    IF field = <<>> \/ (Len(field) = 1 /\ field[1] = "") THEN NoColumns ELSE field

\* the search of the route, then the date filter if a bound is given
RouteSearch(frames, query, fuzzy, columns) ==
    IF fuzzy THEN fuzzy_search(frames, query, 70, columns)
    ELSE exact_search(frames, query, FALSE, columns)

RouteResults(found, start_date, end_date) ==
    IF start_date # <<>> \/ end_date # <<>>
    THEN filter_by_date_range(found, start_date, end_date)
    ELSE Returned(found)

\* formatted_result
Formatted(record) ==
    [source_file |-> IF "file" \in DOMAIN record THEN record["file"] ELSE Str(<<"Unknown">>),
     match_score |-> IF "match_score" \in DOMAIN record THEN record["match_score"] ELSE None,
     matching_value |-> IF "matching_value" \in DOMAIN record
                        THEN record["matching_value"] ELSE None,
     fields |-> [k \in {f \in (DOMAIN record) \ MetaFields : ~isna(record[f])} |->
                    Str(str(record[k]))]]

formatted_results(records) == [i \in 1..Len(records) |-> Formatted(records[i])]

\* the response of the route for listed results
Found200(formatted, return_html) ==
    IF return_html
    THEN [kind |-> "html", page |-> "results", results |-> formatted]
    ELSE [kind |-> "json", success |-> TRUE, results_count |-> Len(formatted),
          results |-> formatted]

\* the response of the except clause
Error200(return_html) ==
    IF return_html
    THEN [kind |-> "html", page |-> "error", results |-> <<>>]
    ELSE [kind |-> "json", success |-> FALSE, error |-> "Error during search"]

Propagated(outcome, return_html) ==
    IF outcome.ok THEN Found200(formatted_results(outcome.records), return_html)
    ELSE [kind |-> "exception"]

\* try: ... return the results; except Exception: return the error
Responded(outcome, return_html) ==
    IF outcome.ok THEN Found200(formatted_results(outcome.records), return_html)
    ELSE Error200(return_html)

\* search()
search(frames, query, fuzzy, columns, start_date, end_date, return_html) ==
    Responded(RouteResults(RouteSearch(frames, query, fuzzy, FormColumns(columns)),
                           start_date, end_date),
              return_html)

\* one request POST /search
SearchRequest(query, fuzzy, columns, start_date, end_date, return_html) ==
    /\ pc = "ready"
    /\ results' = search(dataframes, query, fuzzy, columns, start_date, end_date, return_html)
    /\ call' = [NoCall EXCEPT !.op = "search", !.query = query, !.fuzzy = fuzzy,
                              !.columns = columns, !.start_date = start_date,
                              !.end_date = end_date, !.html_output = return_html]
    /\ UNCHANGED <<fs, csv_files, dataframes, invoked, pending>>

----------------------------------------------------------------------------
(* SpecWeb: the web front end, its agent constructed as in SpecServe,      *)
(* answers any sequence of POST /search requests.                          *)

WebQueries == {<<>>, <<"a">>}

WebColumns == {<<>>, <<"">>, <<"name">>}

InitWeb == InitServe

NextWeb ==
    \E q \in WebQueries, fuzzy \in BOOLEAN, columns \in WebColumns, b \in ServeBounds,
       return_html \in BOOLEAN :
        Served(SearchRequest(q, fuzzy, columns, b[1], b[2], return_html))

SpecWeb == InitWeb /\ [][NextWeb]_vars

\* the search or the date filter of the last request raised
RouteRaised ==
    ~RouteResults(RouteSearch(dataframes, call.query, call.fuzzy, FormColumns(call.columns)),
                  call.start_date, call.end_date).ok

----------------------------------------------------------------------------
(* query_quickbooks.py: the QuickBooksAnalyzer and the command line that   *)
(* constructs it.  The database file is a content of kind "db" whose body  *)
(* maps the names of its tables to tables [cols, rows]; a file of another  *)
(* kind is no SQLite database.                                             *)

QuickBooksDb == "quickbooks.db"
RevenueChart == "revenue_by_year.png"

Database(tables) == [kind |-> "db", header |-> <<>>, body |-> tables]
Picture == [kind |-> "png", header |-> <<>>, body |-> <<>>]

\* sys.exit(1) after the message, or the constructor returns
Exit(message) == [status |-> 1, message |-> message]
Connected == [status |-> 0, message |-> "connected"]

TableAlwaysThere(tables) == FALSE

\* ('quickbooks',) not in tables
TableMissing(tables) == "quickbooks" \notin tables

\* QuickBooksAnalyzer.__init__
analyzer_init(dir, db_path) ==
    IF ~exists(dir, db_path) THEN Exit("database file not found")
    ELSE IF dir[db_path].kind # "db" THEN Exit("SQLite error")
    ELSE IF DOMAIN dir[db_path].body = {} THEN Exit("database contains no tables")
    ELSE IF TableMissing(DOMAIN dir[db_path].body) THEN Exit("quickbooks table not found")
    ELSE Connected

\* analyzer = QuickBooksAnalyzer() in main(): SystemExit is no Exception,
\* so the except clause of main() lets it end the process
ConstructAnalyzer ==
    /\ pc = "new"
    /\ results' = analyzer_init(fs, QuickBooksDb)
    /\ pc' = IF analyzer_init(fs, QuickBooksDb).status = 0 THEN "ready" ELSE "exited"
    /\ call' = [NoCall EXCEPT !.op = "QuickBooksAnalyzer", !.file = QuickBooksDb]
    /\ UNCHANGED <<fs, csv_files, dataframes, invoked, pending>>

\* CASE WHEN Total IS NULL OR Total = '' OR Total = 'nan' THEN 0
\* ELSE CAST(Total AS NUMERIC) END, for the totals of the model
Revenue(total) == IF total.t = "num" THEN total.n ELSE 0

RECURSIVE SumRevenue(_, _, _)
SumRevenue(table, year, i) ==
    IF i > Len(table.rows) THEN 0
    ELSE (IF Cell(table, i, "Year") = year THEN Revenue(Cell(table, i, "Total")) ELSE 0)
         + SumRevenue(table, year, i + 1)

\* the years of a set, in ascending order
RECURSIVE Ascending(_)
Ascending(years) ==
    IF years = {} THEN <<>>
    ELSE LET first == CHOOSE y \in years : \A z \in years : y.n <= z.n
         IN  <<first>> \o Ascending(years \ {first})

\* SELECT Year, SUM(...) AS TotalRevenue FROM quickbooks GROUP BY Year ORDER BY Year
revenue_query(table) ==
    LET years == Ascending({Cell(table, i, "Year") : i \in 1..Len(table.rows)})
    IN  [k \in 1..Len(years) |->
            [Year |-> years[k], TotalRevenue |-> SumRevenue(table, years[k], 1)]]

\* execute_query on the database as it is now: the rows, or None
execute_revenue_query(dir, db_path) ==
    IF exists(dir, db_path) /\ dir[db_path].kind = "db"
          /\ "quickbooks" \in DOMAIN dir[db_path].body
    THEN revenue_query(dir[db_path].body["quickbooks"])
    ELSE <<>>

\* revenue_by_year(): the rows are printed and the chart is saved
RevenueByYear ==
    /\ pc = "ready"
    /\ results' = execute_revenue_query(fs, QuickBooksDb)
    /\ fs' = IF execute_revenue_query(fs, QuickBooksDb) # <<>>
             THEN [fs EXCEPT ![RevenueChart] = Picture] ELSE fs
    /\ call' = [NoCall EXCEPT !.op = "revenue_by_year"]
    /\ pc' = pc
    /\ UNCHANGED <<csv_files, dataframes, invoked, pending>>

\* get_all_services(): the columns of the table but Customer, Year, Total
get_all_services(dir, db_path) ==
    IF exists(dir, db_path) /\ dir[db_path].kind = "db"
          /\ "quickbooks" \in DOMAIN dir[db_path].body
    THEN SelectSeq(dir[db_path].body["quickbooks"].cols,
                   LAMBDA c : c \notin {"Customer", "Year", "Total"})
    ELSE <<>>

GetAllServices ==
    /\ pc = "ready"
    /\ results' = get_all_services(fs, QuickBooksDb)
    /\ call' = [NoCall EXCEPT !.op = "get_all_services"]
    /\ pc' = pc
    /\ UNCHANGED <<fs, csv_files, dataframes, invoked, pending>>

\* main() returns
MainReturns ==
    /\ pc = "ready"
    /\ pc' = "done"
    /\ UNCHANGED <<fs, csv_files, dataframes, invoked, pending, results, call>>

----------------------------------------------------------------------------
(* SpecQuickBooks: the command line of query_quickbooks.py runs in a       *)
(* directory where quickbooks.db is missing, is no database, or holds some *)
(* tables.                                                                 *)

QuickBooksRows ==
    {<<Str(<<"A">>), year, total, Num(1)>> :
        year \in {Num(2022), Num(2023)}, total \in {Num(5), NaN, Str(<<"n", "a", "n">>)}}

QuickBooksTables ==
    {[cols |-> <<"Customer", "Year", "Total", "Windows">>, rows |-> rows] :
        rows \in SeqsUpTo(QuickBooksRows, MaxRows)}

OtherTable == [cols |-> <<"id">>, rows |-> <<>>]

Databases ==
    {Absent, Unreadable, Database(<<>>), Database([n \in {"other"} |-> OtherTable])}
        \cup {Database([n \in {"quickbooks"} |-> t]) : t \in QuickBooksTables}
        \cup {Database([n \in {"quickbooks", "other"} |->
                            IF n = "other" THEN OtherTable ELSE t]) : t \in QuickBooksTables}

InitQuickBooks ==
    /\ fs \in {[p \in {QuickBooksDb, RevenueChart} |-> IF p = QuickBooksDb THEN db ELSE Absent] :
                  db \in Databases}
    /\ pc = "new"
    /\ csv_files = <<>>
    /\ dataframes = <<>>
    /\ invoked = {}
    /\ pending = <<>>
    /\ results = <<>>
    /\ call = NoCall

NextQuickBooks ==
    \/ ConstructAnalyzer
    \/ GetAllServices
    \/ RevenueByYear
    \/ MainReturns

SpecQuickBooks == InitQuickBooks /\ [][NextQuickBooks]_vars

\* the database file is there, is a database and has a table quickbooks
HasQuickBooksTable(dir) ==
    /\ dir[QuickBooksDb].kind = "db"
    /\ "quickbooks" \in DOMAIN dir[QuickBooksDb].body

\* C20: when quickbooks.db is missing, is no database or has no table
\* quickbooks, the construction of the analyzer reports it and the process
\* exits with status 1; no query runs unless the construction succeeded,
\* and none runs after the exit
C20_MissingDatabaseIsFatal ==
    [][ /\ pc # "exited"
        /\ (pc = "new" /\ ~HasQuickBooksTable(fs))
              => /\ pc' = "exited"
                 /\ results'.status = 1
                 /\ results'.message \notin {"", "connected"}
        /\ call'.op \in {"revenue_by_year", "get_all_services"}
              => pc = "ready" /\ HasQuickBooksTable(fs) ]_vars

\* the process has exited with status 1 on a database that has tables but
\* no table quickbooks
C20_Witness ==
    /\ pc = "exited"
    /\ results.status = 1
    /\ fs[QuickBooksDb].kind = "db"
    /\ DOMAIN fs[QuickBooksDb].body = {"other"}


----------------------------------------------------------------------------
(* schedule_database.py: create_schedule_database turns the header of      *)
(* consolidated_schedules.csv into SQL column names.  A column name is a   *)
(* text; pandas never hands out an empty column name.  The files of the    *)
(* model hold a header and no rows.                                        *)

SchedulesDb == "schedules.db"
ScheduleMetadata == "schedule_db_metadata.json"

\* re.sub(r'[^a-zA-Z0-9]', '_', str(name).lower())
Substituted(name) ==
    [i \in 1..Len(name) |->
        IF LowerChar(name[i]) \in Range(LowerLetters) \/ IsDigit(name[i])
        THEN LowerChar(name[i]) ELSE "_"]

\* if clean_name[0].isdigit(): clean_name = 'col_' + clean_name
Prefixed(name) == IF IsDigit(name[1]) THEN <<"c", "o", "l", "_">> \o name ELSE name

\* re.sub(r'_+', '_', clean_name)
Squeezed(name) ==
    LET kept == {i \in 1..Len(name) : ~(name[i] = "_" /\ i > 1 /\ name[i - 1] = "_")}
        nth(k) == CHOOSE i \in kept : Cardinality({j \in kept : j < i}) = k - 1
    IN  [k \in 1..Cardinality(kept) |-> name[nth(k)]]

\* clean_name.rstrip('_')
RECURSIVE Trimmed(_)
Trimmed(name) ==
    IF name # <<>> /\ name[Len(name)] = "_" THEN Trimmed(SubSeq(name, 1, Len(name) - 1))
    ELSE name

clean_column_name(name) == Trimmed(Squeezed(Prefixed(Substituted(name))))

\* used_names[clean_name], a count per clean name
Used(used, name) == IF name \in DOMAIN used THEN used[name] ELSE 0

\* the name given to a column whose clean name was used count times before
Numbered(name, count) == IF count = 0 THEN name ELSE name \o <<"_">> \o NatToStr(count + 1)

\* the loop over data.columns that fills column_mapping and used_names:
\* the clean names of the columns from i on, in the order of the columns
RECURSIVE column_mapping(_, _, _)
column_mapping(columns, i, used) ==
    IF i > Len(columns) THEN <<>>
    ELSE <<Numbered(clean_column_name(columns[i]), Used(used, clean_column_name(columns[i])))>>
         \o column_mapping(columns, i + 1,
                [n \in DOMAIN used \cup {clean_column_name(columns[i])} |->
                    IF n = clean_column_name(columns[i]) THEN Used(used, n) + 1 ELSE used[n]])

NoneUsed == [n \in {} |-> 0]

\* CREATE TABLE jobs (id ..., "<clean>" TEXT, ...): SQLite refuses a column
\* name that occurs twice
TableCreated(names) ==
    \A i, j \in 1..Len(names) : i # j => names[i] # names[j]

\* the columns whose lower-cased name contains one of the terms
Named(columns, terms) ==
    SelectSeq(columns, LAMBDA c : \E term \in terms : Contains(term, Lower(c)))

Metadata(columns, mapping) ==
    [total_records |-> 0,
     date_columns |-> Named(columns, {<<"d", "a", "t", "e">>}),
     client_columns |-> Named(columns, {<<"c", "l", "i", "e", "n", "t">>,
                                        <<"c", "u", "s", "t", "o", "m", "e", "r">>,
                                        <<"n", "a", "m", "e">>,
                                        <<"c", "o", "m", "p", "a", "n", "y">>}),
     column_mapping |-> mapping]

JobsTable(mapping) == [cols |-> <<<<"i", "d">>>> \o mapping, rows |-> <<>>]

\* create_schedule_database()
CreateScheduleDatabase ==
    /\ pc = "new"
    /\ pc' = "done"
    /\ call' = [NoCall EXCEPT !.op = "create_schedule_database"]
    /\ IF ~exists(fs, Consolidated)
       THEN /\ results' = [returned |-> FALSE, column_mapping |-> <<>>]
            /\ fs' = fs
       ELSE LET mapping == column_mapping(fs[Consolidated].header, 1, NoneUsed)
            IN  IF TableCreated(<<<<"i", "d">>>> \o mapping)
                THEN /\ results' = [returned |-> TRUE, column_mapping |-> mapping]
                     /\ fs' = [fs EXCEPT
                                  ![SchedulesDb] = Database([n \in {"jobs"} |-> JobsTable(mapping)]),
                                  ![ScheduleMetadata] =
                                      JsonFile(Metadata(fs[Consolidated].header, mapping))]
                ELSE /\ results' = [returned |-> FALSE, column_mapping |-> mapping]
                     /\ fs' = [fs EXCEPT ![SchedulesDb] = Database(<<>>)]
    /\ UNCHANGED <<csv_files, dataframes, invoked, pending>>

----------------------------------------------------------------------------
(* SpecColumns: create_schedule_database runs once over a consolidated     *)
(* file whose header is a list of distinct column names.                   *)

MaxColumns == 3    \* most columns of a generated header

ColumnNames ==
    {<<"a">>, <<"A">>, <<"a", "_">>, <<"a", " ", "2">>, <<"a", "_", "2">>, <<"2">>,
     <<"-">>, <<"a", "-", "-", "b">>, <<"D", "a", "t", "e">>, <<"2", "a">>}

Distinct(names) == \A i, j \in 1..Len(names) : i # j => names[i] # names[j]

Headers == {h \in SeqsUpTo(ColumnNames, MaxColumns) : h # <<>> /\ Distinct(h)}

InitColumns ==
    /\ fs \in {[p \in {Consolidated, SchedulesDb, ScheduleMetadata} |->
                  IF p = Consolidated THEN file ELSE IF p = SchedulesDb THEN db ELSE Absent] :
                  file \in {Absent} \cup {CsvFile(h, <<>>) : h \in Headers},
                  db \in {Absent, Database(<<>>)}}
    /\ pc = "new"
    /\ csv_files = <<>>
    /\ dataframes = <<>>
    /\ invoked = {}
    /\ pending = <<>>
    /\ results = <<>>
    /\ call = NoCall

NextColumns == CreateScheduleDatabase

SpecColumns == InitColumns /\ [][NextColumns]_vars

\* C21: the mapping built from a list of distinct column names gives two
\* different columns two different SQL column names
C21_MappingIsInjective ==
    call.op = "create_schedule_database" => Distinct(results.column_mapping)

\* C26: the clean name of a non-empty column name is non-empty, is made of
\* lower-case letters, digits and underscores, does not start with a digit,
\* has no two underscores in a row and no underscore at its end
C26_CleanNameIsSqlSafe ==
    call.op = "create_schedule_database" =>
        \A k \in 1..Len(fs[Consolidated].header) :
            LET clean == clean_column_name(fs[Consolidated].header[k])
            IN  /\ clean # <<>>
                /\ \A i \in 1..Len(clean) :
                       clean[i] \in Range(LowerLetters) \/ IsDigit(clean[i]) \/ clean[i] = "_"
                /\ ~IsDigit(clean[1])
                /\ \A i \in 1..(Len(clean) - 1) : ~(clean[i] = "_" /\ clean[i + 1] = "_")
                /\ clean[Len(clean)] # "_"


----------------------------------------------------------------------------
(* More on fuzzy_search. *)

\* C22: fuzzy_search returns the rows that have an allowed string cell
\* whose similarity is at least the threshold, a similarity equal to the
\* threshold included, and no other row
C22_ThresholdIsMinimumScore ==
    call.op = "fuzzy_search" =>
        RowsOf(results) =
            RowsWhere(dataframes,
                LAMBDA df, i : \E c \in AllowedColumns(call.columns, df) :
                    /\ IsStr(Cell(df, i, c))
                    /\ Similarity(df, i, c, call.query) >= call.threshold)


----------------------------------------------------------------------------
(* More on filter_by_date_range. *)

\* a field of the record is a date
Dated(record) == \E k \in DOMAIN record : ~isna(record[k]) /\ to_datetime(record[k]).ok

\* a field of the record is a date between the bounds of the call
DatedInRange(record, c) ==
    \E k \in DOMAIN record :
        InBounds(record[k], FilterBound(c.start_date, datetime_min).dt,
                 FilterBound(c.end_date, datetime_max).dt)

\* C23: with a bound, filter_by_date_range keeps the records that hold a
\* date in the range and the records that hold no date at all, and drops
\* only the records that hold dates none of which is in the range
C23_UndatedRecordsAreKept ==
    (/\ call.op = "filter_by_date_range" /\ ~call.raised
     /\ (call.start_date # <<>> \/ call.end_date # <<>>)) =>
        results = SelectSeq(call.records,
                            LAMBDA r : DatedInRange(r, call) \/ ~Dated(r))


----------------------------------------------------------------------------
(* SpecDetect: a process whose agent holds one dataset with more rows than *)
(* the detection of date columns samples makes one date-range search.      *)

DetectCells == {NaN, Str(NotADate), Str(D15)}

\* the column 'when' of the dataset, next to a column 'due' without values
DetectTables ==
    {[cols |-> <<"when", "due">>, rows |-> [i \in 1..Len(w) |-> <<w[i], NaN>>]] :
        w \in {x \in SeqsUpTo(DetectCells, MaxRows + 5) : Len(x) = MaxRows + 5}}

DetectBounds == {<<<<>>, <<>>>>, <<D15, D15>>, <<D16, <<>>>>}

InitDetect ==
    /\ fs = NoFs
    /\ pc = "ready"
    /\ dataframes \in {<<[file |-> "a.csv", df |-> t]>> : t \in DetectTables}
    /\ csv_files = Keys(dataframes)
    /\ invoked = {}
    /\ pending = <<>>
    /\ results = <<>>
    /\ call = NoCall

NextDetect ==
    \E b \in DetectBounds, cols \in DateColumnLists : Once(DateRangeSearch(b[1], b[2], cols))

SpecDetect == InitDetect /\ [][NextDetect]_vars

\* the number of non-null values of the column above row i
NonNullBefore(df, c, i) == Cardinality({j \in 1..(i - 1) : ~isna(Cell(df, j, c))})

\* one of the first five non-null values of the column is a string that
\* parses as a date
Sampled(df, c) ==
    \E i \in 1..Len(df.rows) :
        /\ IsStr(Cell(df, i, c))
        /\ is_date(Cell(df, i, c).s)
        /\ NonNullBefore(df, c, i) < 5

\* the candidate date columns, as the claim states them
Candidates(df, date_columns) ==
    IF date_columns = NoColumns THEN {c \in Range(df.cols) : Sampled(df, c)}
    ELSE Range(date_columns) \cap Range(df.cols)

\* a candidate column of row i holds a date between the bounds of the call
CandidateInRange(df, i, c) ==
    \E col \in Candidates(df, c.date_columns) :
        /\ ~isna(Cell(df, i, col))
        /\ parse_date(str(Cell(df, i, col))).ok
        /\ InRange(Bound(c.start_date, datetime_min).dt,
                   parse_date(str(Cell(df, i, col))).dt,
                   Bound(c.end_date, datetime_max).dt)

\* C24: the columns date_range_search looks at are the sampled columns when
\* no date_columns are given and the given columns of the dataset otherwise;
\* a row is returned exactly when one of them holds a date in the range, so
\* a dataset without such a column contributes no rows
C24_CandidateDateColumns ==
    call.op = "date_range_search" =>
        \A d \in 1..Len(dataframes) :
            /\ Range(PotentialDateCols(dataframes[d].df, call.date_columns))
                  = Candidates(dataframes[d].df, call.date_columns)
            /\ \A i \in 1..Len(dataframes[d].df.rows) :
                  RowReturned(dataframes, d, i) <=> CandidateInRange(dataframes[d].df, i, call)
            /\ Candidates(dataframes[d].df, call.date_columns) = {} =>
                  \A x \in 1..Len(results) : results[x].file # dataframes[d].file

\* without date_columns, a column whose only date comes after its first
\* five non-null values is no candidate and the search returns nothing
C24_Witness ==
    /\ call.op = "date_range_search" /\ call.date_columns = NoColumns
    /\ call.start_date = <<>> /\ call.end_date = <<>>
    /\ \E i \in 1..Len(dataframes[1].df.rows) :
          /\ is_date(str(Cell(dataframes[1].df, i, "when")))
          /\ NonNullBefore(dataframes[1].df, "when", i) >= 5
    /\ ~Sampled(dataframes[1].df, "when")
    /\ results = <<>>


----------------------------------------------------------------------------
(* More on the construction of the agent. *)

GKeepFiles == {GKeepSimple, GKeepStructured}

\* C25: while GKeep_Structured.csv is in the file list, GKeep (Simple).csv is
\* not in the dataframes mapping, so the mapping never holds both files;
\* and a constructor that returns with a listed GKeep_Structured.csv that
\* cannot be read has loaded neither of the two
C25_StructuredReplacesSimple ==
    /\ [](GKeepStructured \in Range(csv_files) => GKeepSimple \notin Loaded)
    /\ [](~(GKeepFiles \subseteq Loaded))
    /\ [][(Returns /\ GKeepStructured \in Range(csv_files) /\ ~Readable(GKeepStructured))
            => Range(Keys(dataframes')) \cap GKeepFiles = {}]_vars

\* an agent is constructed over a readable GKeep (Simple).csv and a listed
\* GKeep_Structured.csv that cannot be read, and holds neither
C25_Witness ==
    /\ pc = "ready"
    /\ GKeepFiles \subseteq Range(csv_files)
    /\ Readable(GKeepSimple)
    /\ ~Readable(GKeepStructured)
    /\ Loaded \cap GKeepFiles = {}


----------------------------------------------------------------------------
(* quickbooks_processor.py: QuickBooksProcessor.  The yearly exports are   *)
(* CSV files named "<year> QB.csv".                                        *)

QbFile == "2023 QB.csv"
OldQbFile == "oldQB.csv"
ConsolidatedQb == "consolidated_quickbooks.csv"
ProcessorScript == "quickbooks_processor.py"
AgentScript == "deep_search_agent.py"

QbSuffix == <<"Q", "B", ".", "c", "s", "v">>

\* f.endswith('QB.csv')
EndsWithQb(path) ==
    LET c == FileChars(path)
    IN  Len(c) >= 6 /\ SubSeq(c, Len(c) - 5, Len(c)) = QbSuffix

\* re.match(r'^\d{4}\s+QB\.csv$', f)
IsQbName(path) ==
    LET c == FileChars(path)
    IN  /\ Len(c) >= 11
        /\ \A i \in 1..4 : IsDigit(c[i])
        /\ \A i \in 5..(Len(c) - 6) : IsSpace(c[i])
        /\ SubSeq(c, Len(c) - 5, Len(c)) = QbSuffix

\* QuickBooksProcessor._get_qb_files, in the order of the listing (of the
\* CSV files: no other file of the directory has such a name)
get_qb_files(dir, listing) == SelectSeq(listing, LAMBDA f : IsQbName(f))

\* year_match.group(1)
YearOf(path) == SubSeq(FileChars(path), 1, 4)

\* .astype(str).str.replace(',', '').str.replace('$', '')
AmountText(v) == SelectSeq(str(v), LAMBDA ch : ch \notin {",", "$"})

\* a text pd.to_numeric turns into a number or into NaN
IsNumericText(t) == IsNumberText(t) \/ t \in {<<>>, <<"n", "a", "n">>}

\* pd.to_numeric(column, errors='ignore') on one text of a column of texts:
\* numbers if every text is one, the texts as they are otherwise
to_numeric(t, texts) ==
    IF \E u \in texts : ~IsNumericText(u) THEN Str(t)
    ELSE IF ~IsNumberText(t) THEN NaN
    ELSE IF \A u \in texts : IsIntText(u) THEN Num(IntOfText(t))
    ELSE IF IsIntText(t) THEN Float(IntOfText(t))
    ELSE Float(WholeOfFloatText(t))

\* df['Year'] = year, then the clean-up of every column but Customer and Year
Cleaned(df, year) ==
    LET texts(j) == {AmountText(df.rows[i][j]) : i \in 1..Len(df.rows)}
    IN  [cols |-> Append(df.cols, "Year"),
         rows |-> [i \in 1..Len(df.rows) |->
                     [j \in 1..(Len(df.cols) + 1) |->
                         IF j > Len(df.cols) THEN Str(year)
                         ELSE IF df.cols[j] \in {"Customer", "Year"} THEN df.rows[i][j]
                         ELSE to_numeric(AmountText(df.rows[i][j]), texts(j))]]]

\* process_qb_file: the table of one export, or None (ok is FALSE)
process_qb_file(dir, path) ==
    IF read_csv(dir[path]).ok
    THEN [ok |-> TRUE, df |-> Cleaned(read_csv(dir[path]).df, YearOf(path))]
    ELSE ReadFailure

\* all_data: the tables of the exports that could be processed
all_data(dir, files) ==
    SelectSeq([k \in 1..Len(files) |-> process_qb_file(dir, files[k])], LAMBDA r : r.ok)

\* pd.concat(all_data, ignore_index=True) of tables with the same columns
concat(tables) ==
    [cols |-> tables[1].df.cols,
     rows |-> Flatten([k \in 1..Len(tables) |-> tables[k].df.rows])]

\* os.remove(db_file) and sqlite3.connect(db_file) raise on a directory
DbWritable(dir) == dir[QuickBooksDb].kind # "dir"

\* _create_sqlite_database: to_sql('quickbooks', conn, index=False)
create_sqlite_database(dir, combined) ==
    [dir EXCEPT ![QuickBooksDb] = Database([n \in {"quickbooks"} |-> combined])]

\* process_all_files: the directory afterwards, and True, False or raised
process_all_files(dir, listing) ==
    LET tables == all_data(dir, get_qb_files(dir, listing))
        saved == [dir EXCEPT ![ConsolidatedQb] = to_csv(concat(tables))]
    IN  IF tables = <<>> THEN [dir |-> dir, success |-> FALSE, raised |-> FALSE]
        ELSE IF ~DbWritable(dir) THEN [dir |-> saved, success |-> FALSE, raised |-> TRUE]
        ELSE [dir |-> create_sqlite_database(saved, concat(tables)),
              success |-> TRUE, raised |-> FALSE]

----------------------------------------------------------------------------
(* harmonize_quickbooks.py: main().  The call record holds the arguments   *)
(* of the command line; invoked holds the steps main has taken.            *)

HarmonizeArgs(no_clean, update_search, summary, query, filters) ==
    [op |-> "harmonize_quickbooks", no_clean |-> no_clean, update_search |-> update_search,
     summary |-> summary, query |-> query, filters |-> filters]

SkippableOnFlag(no_clean, dir) == no_clean

\* args.no_clean and os.path.exists('consolidated_quickbooks.csv') and
\* os.path.exists('quickbooks.db')
Skippable(no_clean, dir) ==
    no_clean /\ exists(dir, ConsolidatedQb) /\ exists(dir, QuickBooksDb)

\* generate_summary_report: self.combined_data['Customer'] raises KeyError
\* when the exports have no such column
SummaryRaises(dir) == "Customer" \notin Range(dir[ConsolidatedQb].header)

\* step 1 when it is not skipped: the import, process_all_files and the
\* summary; the directory afterwards, what was called, and whether main
\* goes on to step 2
Processed(dir, listing, summary) ==
    LET run == process_all_files(dir, listing)
    IN  IF ~Importable(dir[ProcessorScript])
        THEN [dir |-> dir, called |-> {}, goes_on |-> FALSE]
        ELSE [dir |-> run.dir,
              called |-> {"process_all_files"}
                            \cup (IF run.success /\ summary
                                  THEN {"generate_summary_report"} ELSE {}),
              goes_on |-> run.success /\ ~(summary /\ SummaryRaises(run.dir))]

\* main() up to the end of step 1; every file with the ending QB.csv is
\* among the CSV files of the listing
HarmonizeProcess(listing, args) ==
    /\ pc = "new"
    /\ call' = args
    /\ IF ~\E k \in 1..Len(listing) : EndsWithQb(listing[k])
       THEN /\ pc' = "done"
            /\ UNCHANGED <<fs, invoked>>
       ELSE IF Skippable(args.no_clean, fs)
       THEN /\ pc' = "step2"
            /\ UNCHANGED <<fs, invoked>>
       ELSE /\ fs' = Processed(fs, listing, args.summary).dir
            /\ invoked' = Processed(fs, listing, args.summary).called
            /\ pc' = IF Processed(fs, listing, args.summary).goes_on THEN "step2" ELSE "done"
    /\ UNCHANGED <<csv_files, dataframes, pending, results>>

\* step 2 is not asked for, or deep_search_agent cannot be imported
HarmonizeWithoutSearch ==
    /\ pc = "step2"
    /\ ~call.update_search \/ ~Importable(fs[AgentScript])
    /\ pc' = "done"
    /\ UNCHANGED <<fs, csv_files, dataframes, invoked, pending, results, call>>

\* agent = deep_search_agent.DeepSearchAgent(debug=True): the constructor
\* starts and lists the directory
HarmonizeUpdateSearch(listing) ==
    /\ pc = "step2"
    /\ call.update_search /\ Importable(fs[AgentScript])
    /\ csv_files' = listing
    /\ pc' = "ensure_gkeep"
    /\ dataframes' = <<>>
    /\ pending' = <<>>
    /\ invoked' = invoked \cup {"DeepSearchAgent"}
    /\ UNCHANGED <<fs, results, call>>

\* f"search_results_{args.query.replace(' ', '_')}.csv", for the queries of
\* the model
SearchResultsFile(query) ==
    IF query = <<"a", " ", "b">> THEN "search_results_a_b.csv" ELSE "search_results_a.csv"

\* the rest of step 2 once the agent is constructed: combined_search,
\* display_results and export_results if a query is given
HarmonizeQuery ==
    /\ pc = "ready"
    /\ pc' = "done"
    /\ IF call.query = <<>>
       THEN UNCHANGED <<fs, results, invoked>>
       ELSE LET found == combined_search(dataframes, call.query, TRUE, 70, <<>>, <<>>,
                                         call.filters, FALSE).records
            IN  /\ results' = display_results(found, 0, TRUE)
                /\ fs' = export_results(fs, found, SearchResultsFile(call.query))
                /\ invoked' = invoked \cup {"combined_search"}
    /\ UNCHANGED <<csv_files, dataframes, pending, call>>

----------------------------------------------------------------------------
(* SpecHarmonize: harmonize_quickbooks.py runs once in a directory with    *)
(* exports, processed files or neither.                                    *)

QbData ==
    CsvFile(<<"Customer", "Total">>,
            CsvLine(<<<<"A">>, <<"5">>>>) \o CsvLine(<<<<"a", " ", "b">>, <<"1", ",", "0">>>>))

QbTotals == CsvFile(<<"Total">>, CsvLine(<<<<"5">>>>))

HarmonizePaths ==
    Paths \cup {QbFile, OldQbFile, ConsolidatedQb, QuickBooksDb, ProcessorScript,
                AgentScript, "search_results_a.csv", "search_results_a_b.csv"}

HarmonizeDirs ==
    {[p \in HarmonizePaths |->
        CASE p = QbFile -> qb
          [] p = OldQbFile -> old
          [] p = ConsolidatedQb -> consolidated
          [] p = QuickBooksDb -> db
          [] p = ProcessorScript -> scripts[1]
          [] p = AgentScript -> scripts[2]
          [] OTHER -> Absent] :
        qb \in {Absent, QbData, QbTotals, Unreadable},
        old \in {Absent, QbData},
        consolidated \in {Absent, CsvFile(<<"Customer", "Year">>, CsvLine(<<<<"A">>, <<"2022">>>>))},
        db \in {Absent, Database(<<>>), Folder(<<>>)},
        scripts \in {<<Script, Script>>, <<Absent, Script>>, <<BrokenScript, Absent>>,
                     <<Script, Absent>>}}

HarmonizeQueries ==
    {<<<<>>, <<>>>>, <<<<"a">>, <<>>>>,
     <<<<"a", " ", "b">>, <<[column |-> "Year", value |-> <<"2", "0", "2", "3">>]>>>>}

InitHarmonize ==
    /\ fs \in HarmonizeDirs
    /\ pc = "new"
    /\ csv_files = <<>>
    /\ dataframes = <<>>
    /\ invoked = {}
    /\ pending = <<>>
    /\ results = <<>>
    /\ call = NoCall

NextHarmonize ==
    \/ \E listing \in Listings(fs), no_clean, update_search, summary \in BOOLEAN,
             q \in HarmonizeQueries :
          HarmonizeProcess(listing, HarmonizeArgs(no_clean, update_search, summary, q[1], q[2]))
    \/ HarmonizeWithoutSearch
    \/ \E listing \in Listings(fs) : HarmonizeUpdateSearch(listing)
    \/ EnsureGkeep
    \/ EnsureSchedules
    \/ LoadFile
    \/ Constructed
    \/ HarmonizeQuery

SpecHarmonize == InitHarmonize /\ [][NextHarmonize]_vars


\* the positions of a constructor of the search agent, and of its agent
AgentPositions == {"ensure_gkeep", "ensure_schedules", "load", "ready"}

SearchResultFiles == {"search_results_a.csv", "search_results_a_b.csv"}

\* step 1 was skipped for good reason by the step taken
Step1Skipped ==
    /\ call'.no_clean
    /\ exists(fs, ConsolidatedQb) /\ exists(fs, QuickBooksDb)
    /\ fs' = fs /\ "process_all_files" \notin invoked'

\* the step taken ran the processor, which left both of its files
Step1Succeeded ==
    /\ "process_all_files" \in invoked'
    /\ fs'[ConsolidatedQb].kind = "csv"
    /\ fs'[QuickBooksDb].kind = "db" /\ "quickbooks" \in DOMAIN fs'[QuickBooksDb].body

\* no processing can succeed in the directory: the processor cannot be
\* imported, no export can be read, or the database cannot be replaced
ProcessingFails(dir) ==
    \/ dir[ProcessorScript].kind # "script"
    \/ \A p \in DOMAIN dir : IsQbName(p) => ~read_csv(dir[p]).ok
    \/ dir[QuickBooksDb].kind = "dir"

----------------------------------------------------------------------------
(* More on combined_search. *)

\* C28: combined_search without a query returns the empty list, whatever
\* the bounds and the filters are, and does not raise
C28_NoQueryNoRecords ==
    (call.op = "combined_search" /\ call.query = <<>>) => results = <<>> /\ ~call.raised

\* a call without a query, with bounds and a filter that rows of the loaded
\* dataset satisfy, returned nothing
C28_Witness ==
    /\ call.op = "combined_search" /\ call.query = <<>>
    /\ call.start_date = D14 /\ call.end_date = D15
    /\ call.filters = <<[column |-> "name", value |-> <<"A">>], [column |-> "when", value |-> <<"2", "0">>]>>
    /\ Cell(dataframes[1].df, 1, "when") = Str(D14)
    /\ Contains(<<"a">>, Lower(str(Cell(dataframes[1].df, 1, "name"))))
    /\ results = <<>>


----------------------------------------------------------------------------
(* SpecGkeep: gkeep_adapter.py is run, any number of times, over a notes   *)
(* file made of up to three lines about the people it looks for.           *)

\* a line long enough to push what precedes it out of a later match's context
Filler == [i \in 1..(ContextBefore + 1) |-> IF i = ContextBefore + 1 THEN "\n" ELSE "x"]

GkeepLines ==
    {Filler,
     <<"ANNA", " ", "WONG", " ", "4078", " ", "Summit", " ", "kcw88@yahoo.com", "\n">>,
     <<"Anna", " ", " ", "Wong", " ", "Summit", "\n">>,
     <<"Hilda", " ", "Wong", " ", "75", " ", "Dunvegan", " ", "Road", " ", "Toronto", "\n">>,
     <<"Wong", " ", "4078", "\n">>,
     <<"Kenneth", " ", "Kwong", " ", "Fairfield", " ", "Rd", " ", "416-555-0100", "\n">>,
     <<"hello", "\n">>}

GkeepTexts == {Flatten(lines) : lines \in SeqsUpTo(GkeepLines, MaxRows + 1)}

InitGkeep ==
    /\ fs \in {[EmptyDir EXCEPT ![GKeepSimple] = CsvFile(<<"note">>, text),
                                ![GkeepAdapter] = Script] : text \in GkeepTexts}
    /\ pc = "new"
    /\ csv_files = <<>>
    /\ dataframes = <<>>
    /\ invoked = {}
    /\ pending = <<>>
    /\ results = <<>>
    /\ call = NoCall

NextGkeep == RunGkeepAdapter

SpecGkeep == InitGkeep /\ [][NextGkeep]_vars

\* the records of the written file, as the rows of fields a reader finds
WrittenClients == Tokenize(fs[GKeepStructured].body)

\* what the adapter extracted from the notes file, before duplicates go
Extracted == clients(ReadText(fs[GKeepSimple]))

\* the first extracted record with the full name, names in lower case
FirstOfName(name) ==
    Extracted[CHOOSE k \in 1..Len(Extracted) :
                 /\ Lower(Extracted[k].full_name) = Lower(name)
                 /\ \A j \in 1..(k - 1) : Lower(Extracted[j].full_name) # Lower(name)]

AnnaWong == <<"A", "n", "n", "a", " ", "W", "o", "n", "g">>

\* C29: the file extract_gkeep_data writes holds every extracted full name
\* once (names compared in lower case), with the fields of the first
\* extracted record of the name, and holds one record of Anna Wong
C29_OneRecordPerName ==
    exists(fs, GKeepStructured) =>
        /\ \A i, j \in 1..Len(WrittenClients) :
              Lower(WrittenClients[i][1]) = Lower(WrittenClients[j][1]) => i = j
        /\ {WrittenClients[i][1] : i \in 1..Len(WrittenClients)}
              = {Extracted[k].full_name : k \in 1..Len(Extracted)}
        /\ \A i \in 1..Len(WrittenClients) :
              \A j \in 1..Len(GkeepFields) :
                  WrittenClients[i][j] = FirstOfName(WrittenClients[i][1])[GkeepFields[j]]
        /\ Cardinality({i \in 1..Len(WrittenClients) : WrittenClients[i][1] = AnnaWong}) = 1

\* the notes file mentions Anna Wong twice in different surroundings and
\* the written file holds fewer records than were extracted
C29_Witness ==
    /\ exists(fs, GKeepStructured)
    /\ Len(WrittenClients) < Len(Extracted)
    /\ \E k \in 2..Len(Extracted) :
          /\ Extracted[k].full_name = AnnaWong
          /\ Extracted[1].full_name = AnnaWong
          /\ Extracted[k].notes # Extracted[1].notes

\* the notes file does not mention Anna Wong and the written file holds her
C29_WitnessUnmentioned ==
    /\ exists(fs, GKeepStructured)
    /\ \A i \in 1..Len(ReadText(fs[GKeepSimple])) :
          ReadText(fs[GKeepSimple])[i] \notin {"ANNA", "Anna", "4078", "Summit"}
    /\ \E i \in 1..Len(WrittenClients) : WrittenClients[i][1] = AnnaWong


----------------------------------------------------------------------------
(* The cell loop of process_schedule_file under SpecSchedule, cell by cell. *)

\* the file the last call of process_schedule_file was given
ProcessedEntry ==
    CHOOSE e \in {schedule_files(fs)[i] : i \in 1..Len(schedule_files(fs))} : e.name = call.file

\* the cells the loop of that call goes through
LoopCells == ScheduleCells(ReadCsv(ProcessedEntry.content, "skip").df)

NothingPending == [current_job |-> EmptyJob, jobs |-> <<>>]

\* the loop from a state over cells i..j of the file
LoopOver(st, i, j) ==
    ProcessCells(st, SubSeq(LoopCells, i, j),
                 extract_date_from_filename(ProcessedEntry.name, ProcessedEntry.mtime),
                 FileChars(ProcessedEntry.name))

\* current_job and jobs once the first k cells are processed
AfterCells(k) == LoopOver(NothingPending, 1, k)

\* the k-th cell is text that contains "COMPANY:"
CompanyArrives(k) == IsStr(LoopCells[k]) /\ HasCompany(LoopCells[k].s)

Fields(job) == Cardinality(DOMAIN job)

\* the keys the "COMPANY:" cell assigns whatever the job holds
AssignedBy(cell) ==
    {"Schedule_Date", "Source_File"}
        \cup (IF KeyPart(cell.s) # <<>> /\ ValuePart(cell.s) # <<>> THEN {KeyPart(cell.s)[1]} ELSE {})

\* no job of fewer than two fields is among the emitted ones, at any cell
\* or at the end
NoSmallJobEmitted ==
    /\ \A i \in 1..Len(results) : Fields(results[i]) >= 2
    /\ \A k \in 0..Len(LoopCells) :
          \A i \in 1..Len(AfterCells(k).jobs) : Fields(AfterCells(k).jobs[i]) >= 2

\* a pending job of two or more fields is emitted by a "COMPANY:" cell and
\* the job the cell starts is the one it would start with nothing pending
LargeJobEmitted(k) ==
    Fields(AfterCells(k - 1).current_job) >= 2 =>
        /\ AfterCells(k).jobs = Append(AfterCells(k - 1).jobs, AfterCells(k - 1).current_job)
        /\ AfterCells(k).current_job = LoopOver(NothingPending, k, k).current_job

\* C30 as stated: no job with fewer than two fields is ever emitted; a
\* "COMPANY:" cell that arrives at a pending job of one field neither emits
\* nor clears it, and the field, key and value, is in the job the cell
\* starts; a pending job of two or more fields is emitted and the new job
\* starts empty
C30_FieldIsCarried ==
    call.op = "process_schedule_file" =>
        /\ NoSmallJobEmitted
        /\ \A k \in 1..Len(LoopCells) :
              CompanyArrives(k) =>
                  /\ LargeJobEmitted(k)
                  /\ Fields(AfterCells(k - 1).current_job) = 1 =>
                        /\ AfterCells(k).jobs = AfterCells(k - 1).jobs
                        /\ \A key \in DOMAIN AfterCells(k - 1).current_job :
                              /\ key \in DOMAIN AfterCells(k).current_job
                              /\ AfterCells(k).current_job[key] = AfterCells(k - 1).current_job[key]

\* C30: no job with fewer than two fields is ever emitted; a "COMPANY:" cell
\* that arrives at a pending job of one field neither emits nor clears it:
\* the key of the field is in the job the cell starts, with the pending
\* value unless the cell assigns that key itself (Schedule_Date, Source_File
\* or the key of the cell); a pending job of two or more fields is emitted
\* and the new job starts empty
C30_FieldIsCarriedUnlessAssigned ==
    call.op = "process_schedule_file" =>
        /\ NoSmallJobEmitted
        /\ \A k \in 1..Len(LoopCells) :
              CompanyArrives(k) =>
                  /\ LargeJobEmitted(k)
                  /\ Fields(AfterCells(k - 1).current_job) = 1 =>
                        /\ AfterCells(k).jobs = AfterCells(k - 1).jobs
                        /\ \A key \in DOMAIN AfterCells(k - 1).current_job :
                              /\ key \in DOMAIN AfterCells(k).current_job
                              /\ key \notin AssignedBy(LoopCells[k]) =>
                                    AfterCells(k).current_job[key] = AfterCells(k - 1).current_job[key]

\* a "COMPANY:" cell has arrived at a pending job whose one field is Name,
\* and another at a pending job of two or more fields
C30_Witness ==
    /\ call.op = "process_schedule_file"
    /\ \E k \in 1..Len(LoopCells) :
          /\ CompanyArrives(k)
          /\ DOMAIN AfterCells(k - 1).current_job = {"Name"}
          /\ "Name" \in DOMAIN AfterCells(k).current_job
    /\ \E k \in 1..Len(LoopCells) :
          /\ CompanyArrives(k)
          /\ Fields(AfterCells(k - 1).current_job) >= 2

====
